---------------------------- MODULE Spec2Model ----------------------------
(***************************************************************************)
(* A model of the SolLens browser extension: the identifier validator, the *)
(* label store with its in-memory cache, the link and text scanners, the   *)
(* annotator and the content script's scan scheduler.                       *)
(*                                                                          *)
(* Strings are sequences of one-character strings, so that slicing,        *)
(* prefix/suffix tests and pattern matching are computed, not assumed.     *)
(***************************************************************************)
EXTENDS Integers, Sequences, FiniteSets, TLC

(***************************************************************************)
(* Characters and strings                                                  *)
(***************************************************************************)

\* src/lib/utils/address.ts:11  BASE58_CHARS (no 0, O, I, l)
BASE58_CHARS ==
  << "1","2","3","4","5","6","7","8","9",
     "A","B","C","D","E","F","G","H","J","K","L","M","N","P","Q","R","S","T",
     "U","V","W","X","Y","Z",
     "a","b","c","d","e","f","g","h","i","j","k","m","n","o","p","q","r","s",
     "t","u","v","w","x","y","z" >>

Base58Set == { BASE58_CHARS[i] : i \in 1..Len(BASE58_CHARS) }

\* the character class [A-Za-z0-9] of the href patterns
AlnumSet == Base58Set \cup {"0", "O", "I", "l"}

\* the characters String.prototype.trim removes (those the model uses)
WhiteSet == {" ", "\n", "\t"}

Rep(c, n) == [i \in 1..n |-> c]

\* s.slice(0, n)
Take(s, n) == SubSeq(s, 1, IF n < Len(s) THEN n ELSE Len(s))

\* s.slice(-n) for n > 0
TakeLast(s, n) == SubSeq(s, IF Len(s) > n THEN Len(s) - n + 1 ELSE 1, Len(s))

\* s.substring(from0, to0) with 0-based, end-exclusive offsets
Substring(s, from0, to0) == SubSeq(s, from0 + 1, to0)

\* s.startsWith(p)
StartsWith(s, p) == Len(p) <= Len(s) /\ SubSeq(s, 1, Len(p)) = p

\* s.endsWith(p)
EndsWith(s, p) == Len(p) <= Len(s) /\ SubSeq(s, Len(s) - Len(p) + 1, Len(s)) = p

\* whether pattern p occurs in s at 1-based position i
MatchesAt(s, p, i) == i >= 1 /\ i + Len(p) - 1 <= Len(s) /\ SubSeq(s, i, i + Len(p) - 1) = p

\* s.includes(p)
Includes(s, p) == \E i \in 1..(Len(s) + 1) : MatchesAt(s, p, i)

\* s.trim()
Trim(s) ==
  LET keep == { i \in 1..Len(s) : s[i] \notin WhiteSet }
      Min(S) == CHOOSE x \in S : \A y \in S : x <= y
      Max(S) == CHOOSE x \in S : \A y \in S : x >= y
  IN  IF keep = {} THEN << >> ELSE SubSeq(s, Min(keep), Max(keep))

\* the length of the maximal run of characters of class cls starting at 1-based i
RECURSIVE RunLen(_, _, _)
RunLen(s, cls, i) ==
  IF i > Len(s) \/ s[i] \notin cls THEN 0 ELSE 1 + RunLen(s, cls, i + 1)

(***************************************************************************)
(* Identifier validator: src/lib/utils/address.ts                          *)
(***************************************************************************)

MIN_ADDRESS_LEN == 32
MAX_ADDRESS_LEN == 44

\* values that are not strings (null, undefined, a number) are modelled by NotAString
NotAString == << "[not a string]" >>

\* isBase58(str): false for the empty string, otherwise every character is in BASE58_CHARS
isBase58(str) ==
  IF str = NotAString \/ str = << >> THEN FALSE
  ELSE \A i \in 1..Len(str) : str[i] \in Base58Set

\* a validator that checks the untrimmed string
isValidSolanaAddress_NoTrim(address) ==
  IF address = NotAString \/ address = << >> THEN FALSE
  ELSE IF Len(address) < MIN_ADDRESS_LEN \/ Len(address) > MAX_ADDRESS_LEN THEN FALSE
       ELSE isBase58(address)

\* isValidSolanaAddress(address)
isValidSolanaAddress(address) ==
  IF address = NotAString \/ address = << >> THEN FALSE
  ELSE LET trimmed == Trim(address)
       IN  IF Len(trimmed) < MIN_ADDRESS_LEN \/ Len(trimmed) > MAX_ADDRESS_LEN THEN FALSE
           ELSE isBase58(trimmed)

TRUNCATE_LEN == 5
ELLIPSIS == <<".", ".", ".">>

\* a truncation that slices the suffix from the front: slice(suffixLength) for slice(-suffixLength)
truncateAddress_SuffixFromFront(address, prefixLength, suffixLength) ==
  IF address = << >> \/ Len(address) <= prefixLength + suffixLength THEN address
  ELSE Take(address, prefixLength) \o ELLIPSIS
         \o SubSeq(address, suffixLength + 1, Len(address))

\* truncateAddress(address, prefixLength, suffixLength)
truncateAddress(address, prefixLength, suffixLength) ==
  IF address = << >> \/ Len(address) <= prefixLength + suffixLength THEN address
  ELSE Take(address, prefixLength) \o ELLIPSIS \o TakeLast(address, suffixLength)

(***************************************************************************)
(* Href patterns: src/lib/annotator/scanner.ts, src/entrypoints/background.ts *)
(***************************************************************************)

Str_account == <<"/","a","c","c","o","u","n","t","/">>
Str_address == <<"/","a","d","d","r","e","s","s","/">>
Str_token   == <<"/","t","o","k","e","n","/">>
PathShapes  == {Str_account, Str_address, Str_token}

\* the trailing boundary (?:[?#/]|$) of the scanner's pattern
BoundarySet == {"?", "#", "/"}

NoMatch == << >>

\* /\/(account|address|token)\/([A-Za-z0-9]{32,44})(?:[?#/]|$)/ tried at 1-based position i:
\* the greedy run may give characters back, but what then follows it is alphanumeric,
\* never a boundary, so the match needs the whole run to have 32..44 characters
HrefMatchAt(href, i) ==
  \E p \in PathShapes :
    /\ MatchesAt(href, p, i)
    /\ LET j == i + Len(p)
           n == RunLen(href, AlnumSet, j)
       IN  /\ n >= MIN_ADDRESS_LEN /\ n <= MAX_ADDRESS_LEN
           /\ (j + n > Len(href) \/ href[j + n] \in BoundarySet)

\* extractAddressFromHref(href): group 2 of the leftmost match, or null (NoMatch)
extractAddressFromHref(href) ==
  IF href = << >> THEN NoMatch
  ELSE LET hits == { i \in 1..Len(href) : HrefMatchAt(href, i) }
       IN  IF hits = {} THEN NoMatch
           ELSE LET i == CHOOSE x \in hits : \A y \in hits : x <= y
                    p == CHOOSE q \in PathShapes : MatchesAt(href, q, i)
                    j == i + Len(p)
                IN  SubSeq(href, j, j + RunLen(href, AlnumSet, j) - 1)

(***************************************************************************)
(* Map<string, AddressMapping>: an insertion-ordered sequence of entries   *)
(***************************************************************************)

EmptyMap == << >>

MapKeys(m) == { m[i].k : i \in 1..Len(m) }

MapHas(m, key) == key \in MapKeys(m)

MapIndex(m, key) == CHOOSE i \in 1..Len(m) : m[i].k = key

\* Map.prototype.get for a key the map has
MapGet(m, key) == m[MapIndex(m, key)].v

\* Map.prototype.set: an existing key keeps its place, a new key goes last
MapSet(m, key, val) ==
  IF MapHas(m, key) THEN [m EXCEPT ![MapIndex(m, key)] = [k |-> key, v |-> val]]
  ELSE Append(m, [k |-> key, v |-> val])

\* Map.prototype.delete
MapDelete(m, key) ==
  IF MapHas(m, key)
  THEN LET i == MapIndex(m, key) IN SubSeq(m, 1, i - 1) \o SubSeq(m, i + 1, Len(m))
  ELSE m

MapSize(m) == Len(m)

\* the same entries, whatever their order
MapSameContent(m1, m2) ==
  /\ MapKeys(m1) = MapKeys(m2)
  /\ \A key \in MapKeys(m1) : MapGet(m1, key) = MapGet(m2, key)

(***************************************************************************)
(* Label records and the sample data of the model                          *)
(***************************************************************************)

\* an optional field that is undefined
Undefined == "undefined"

\* `${tags.join(", ")}`
RECURSIVE Join(_, _)
Join(strs, sep) ==
  IF Len(strs) = 0 THEN << >>
  ELSE IF Len(strs) = 1 THEN strs[1]
  ELSE strs[1] \o sep \o Join(Tail(strs), sep)

\* identifiers: IdX has 44 characters, IdY 32; IdX2 shares IdX's first and last five
IdX  == <<"A","b","c","d","e">> \o Rep("x", 34) \o <<"v","w","x","y","z">>
IdX2 == <<"A","b","c","d","e">> \o Rep("k", 30) \o <<"v","w","x","y","z">>
IdY  == <<"7","J","s","i","h">> \o Rep("2", 22) \o <<"Y","T","Z","z","8">>
\* 44 alphanumeric characters, one of them outside the base58 alphabet
IdBad0 == <<"B","0","c","d","e">> \o Rep("x", 34) \o <<"v","w","x","y","z">>
\* 45 base58 characters
IdLong == Rep("q", 45)

Name1 == <<"T","r","e","a","s","u","r","y">>
Name2 == <<"O","p","s">>
Tag1  == <<"o","p","s">>
Tag2  == <<"d","a","o">>
Color1 == "#FF7A59"

\* the name/tags/color a caller passes to save (AddressMappingInput)
Input1 == [name |-> Name1, tags |-> << >>, color |-> Undefined]
Input2 == [name |-> Name2, tags |-> <<Tag1, Tag2>>, color |-> Color1]
Inputs == {Input1, Input2}

\* an AddressMapping with the given input and timestamps
Mapping(input, created, updated) ==
  [name |-> input.name, tags |-> input.tags, color |-> input.color,
   created_at |-> created, updated_at |-> updated]

(***************************************************************************)
(* The document: container elements and anchors                            *)
(***************************************************************************)

Body == "body"
ElemIds == {"body", "e1", "e2", "e3", "e4"}
AnchorIds == 1..6

Origin == <<"h","t","t","p","s",":","/","/","s","o","l","s","c","a","n",".","i","o">>
Str_tx == <<"/","t","x","/">>
Str_json == <<"j","s","o","n">>
Str_code == <<"c","o","d","e">>
Str_wna == <<"w","n","a","-","a","d","d","r","e","s","s">>
HostText == <<"A","b","c","d","e",".",".",".","v","w","x","y","z">>

\* containers: the body, a plain div, a pre, and a span inside the pre
InitElems ==
  [e \in ElemIds |->
     CASE e = "body" -> [tag |-> "body", className |-> << >>, parent |-> "none", textProcessed |-> FALSE]
       [] e = "e1" -> [tag |-> "div",  className |-> << >>, parent |-> Body, textProcessed |-> FALSE]
       [] e = "e2" -> [tag |-> "pre",  className |-> << >>, parent |-> Body, textProcessed |-> FALSE]
       [] e = "e3" -> [tag |-> "span", className |-> << >>, parent |-> "e2", textProcessed |-> FALSE]
       [] e = "e4" -> [tag |-> "div",  className |-> << >>, parent |-> Body, textProcessed |-> FALSE]]

NoAttr == << >>

HostAnchor(href, parent, hostClass) ==
  [href |-> href, parent |-> parent, hostClass |-> hostClass, text |-> HostText,
   processed |-> FALSE, annotated |-> FALSE, wnaAddress |-> NoAttr, wnaName |-> NoAttr,
   color |-> "", title |-> << >>]

\* the anchors of the page as the host rendered them
InitAnchors ==
  [a \in AnchorIds |->
     CASE a = 1 -> HostAnchor(Origin \o Str_account \o IdX, Body, << >>)
       [] a = 2 -> HostAnchor(Origin \o Str_token \o IdY \o <<"?","c","=","d">>, "e1", << >>)
       [] a = 3 -> HostAnchor(Origin \o Str_address \o IdX, "e3", << >>)
       [] a = 4 -> HostAnchor(Origin \o Str_account \o IdBad0, Body, << >>)
       [] a = 5 -> HostAnchor(Origin \o Str_account \o IdLong, "e1", << >>)
       [] a = 6 -> HostAnchor(Origin \o Str_tx \o IdX, Body, << >>)]

(***************************************************************************)
(* Link scanner: src/lib/annotator/scanner.ts                              *)
(***************************************************************************)

\* the value of an anchor's class attribute: the host's classes, then the
\* token classList.add put there
ClassAttr(a) ==
  IF ~a.annotated THEN a.hostClass
  ELSE IF a.hostClass = << >> THEN Str_wna
  ELSE a.hostClass \o <<" ">> \o Str_wna

BLOCK_TAGS == {"pre", "code", "script", "style", "noscript"}

\* element.matches(selector) for some selector of BLOCKLIST_SELECTORS
MatchesBlocklist(tag, classAttr, textProcessed) ==
  \/ tag \in BLOCK_TAGS
  \/ Includes(classAttr, Str_json)
  \/ Includes(classAttr, Str_code)
  \/ textProcessed

\* the loop over parentElement
RECURSIVE AncestorBlocked(_, _)
AncestorBlocked(els, e) ==
  IF e \notin DOMAIN els THEN FALSE
  ELSE \/ MatchesBlocklist(els[e].tag, els[e].className, els[e].textProcessed)
       \/ AncestorBlocked(els, els[e].parent)

\* shouldSkipElement(anchor): an anchor never carries data-wna-text-processed itself
shouldSkipElement(els, a) ==
  \/ MatchesBlocklist("a", ClassAttr(a), FALSE)
  \/ AncestorBlocked(els, a.parent)

\* a scanner that forgets to skip the anchors already marked processed
LinkOf_NoProcessedSkip(els, ancs, i) ==
  LET a == ancs[i]
      address == extractAddressFromHref(a.href)
  IN  IF shouldSkipElement(els, a) THEN << >>
      ELSE IF address # NoMatch /\ isValidSolanaAddress(address)
           THEN << [element |-> i, address |-> address, originalText |-> a.text] >>
           ELSE << >>

\* the AddressLink scanForAddressLinks pushes for anchor i, or none
LinkOf(els, ancs, i) ==
  LET a == ancs[i]
      address == extractAddressFromHref(a.href)
  IN  IF shouldSkipElement(els, a) THEN << >>
      ELSE IF a.processed THEN << >>
      ELSE IF address # NoMatch /\ isValidSolanaAddress(address)
           THEN << [element |-> i, address |-> address, originalText |-> a.text] >>
           ELSE << >>

RECURSIVE LinksFrom(_, _, _)
LinksFrom(els, ancs, i) ==
  IF i \notin DOMAIN ancs THEN << >>
  ELSE LinkOf(els, ancs, i) \o LinksFrom(els, ancs, i + 1)

\* scanForAddressLinks(document.body): the matches in document order
scanForAddressLinks(els, ancs) == LinksFrom(els, ancs, 1)

\* a marking that leaves the anchor without data-wna-processed
markAsProcessed_NoMarker(a) == a

\* markAsProcessed(element)
markAsProcessed(a) == [a EXCEPT !.processed = TRUE]

\* clearAllProcessedMarkers(document.body): removes data-wna-processed, the
\* one attribute its selector names
clearAllProcessedMarkers(ancs) ==
  [i \in DOMAIN ancs |-> [ancs[i] EXCEPT !.processed = FALSE]]

(***************************************************************************)
(* Link annotator: src/components/NamingModal.tsx (annotator.ts)           *)
(***************************************************************************)

Str_open == <<" ", "(">>
Str_close == <<")">>
Str_nl == <<"\n">>
Str_tags == <<"\n","T","a","g","s",":"," ">>
Str_comma == <<",", " ">>

\* `${mapping.name} (${truncated})`
DisplayText(name, address) ==
  name \o Str_open \o truncateAddress(address, TRUNCATE_LEN, TRUNCATE_LEN) \o Str_close

\* the hover title: name, address and, when there are tags, the tag list
TitleText(mapping, address) ==
  mapping.name \o Str_nl \o address \o
    (IF Len(mapping.tags) > 0 THEN Str_tags \o Join(mapping.tags, Str_comma) ELSE << >>)

\* an annotator that also points the link at the bare address
annotateLink_RewritesHref(a, address, mapping) ==
  [a EXCEPT !.text = mapping.name \o Str_open \o address \o Str_close,
            !.href = address,
            !.annotated = TRUE,
            !.wnaAddress = address,
            !.wnaName = mapping.name,
            !.title = mapping.name]

\* annotateLink(link, mapping) on the anchor record a
annotateLink(a, address, mapping) ==
  [a EXCEPT !.text = DisplayText(mapping.name, address),
            !.annotated = TRUE,
            !.wnaAddress = address,
            !.wnaName = mapping.name,
            !.color = IF mapping.color # Undefined /\ mapping.color # "" THEN mapping.color ELSE @,
            !.title = TitleText(mapping, address)]

\* one iteration of annotateAddressLinks' loop
annotateOne(a, link, mappings) ==
  markAsProcessed(IF MapHas(mappings, link.address)
                  THEN annotateLink(a, link.address, MapGet(mappings, link.address))
                  ELSE a)

\* annotateAddressLinks(links, mappings)
RECURSIVE annotateAddressLinks(_, _, _)
annotateAddressLinks(ancs, links, mappings) ==
  IF Len(links) = 0 THEN ancs
  ELSE LET l == Head(links)
       IN  annotateAddressLinks(
             [ancs EXCEPT ![l.element] = annotateOne(ancs[l.element], l, mappings)],
             Tail(links), mappings)

\* the anchors whose textContent annotateAddressLinks sets
WrittenBy(links, mappings) ==
  { links[i].element : i \in { j \in 1..Len(links) : MapHas(mappings, links[j].address) } }

\* unannotateLink(element)
unannotateLink(a) ==
  [a EXCEPT !.annotated = FALSE, !.wnaAddress = NoAttr, !.wnaName = NoAttr,
            !.processed = FALSE, !.color = "", !.title = << >>]

(***************************************************************************)
(* Text scanner and text annotator (lib/annotator/text-scanner.ts)         *)
(***************************************************************************)

\* the character class \w, which decides where \b holds
WordSet == AlnumSet \cup {"_"}

IsWordAt(s, i) == i >= 1 /\ i <= Len(s) /\ s[i] \in WordSet

\* the quantifier bounds of fullAddressPattern and truncatedPattern
FULL_MIN_LEN == 32
FULL_MAX_LEN == 44
ELIDED_MIN_LEN == 5

\* a found address: TextAddress without its node
Found(address, start, end) == [address |-> address, start |-> start, end |-> end]

\* the matches of /\b([1-9A-HJ-NP-Za-km-z]{32,44})\b/g from 1-based i on, validated
RECURSIVE FullMatches(_, _)
FullMatches(text, i) ==
  IF i > Len(text) THEN << >>
  ELSE LET n == RunLen(text, Base58Set, i)
           potentialAddress == SubSeq(text, i, i + n - 1)
       IN  IF /\ ~IsWordAt(text, i - 1)
              /\ n >= FULL_MIN_LEN /\ n <= FULL_MAX_LEN
              /\ ~IsWordAt(text, i + n)
           THEN (IF isValidSolanaAddress(potentialAddress)
                 THEN << Found(potentialAddress, i - 1, i - 1 + n) >>
                 ELSE << >>) \o FullMatches(text, i + n)
           ELSE FullMatches(text, i + 1)

\* the matches of /([1-9A-HJ-NP-Za-km-z]{5,})\.\.\.([1-9A-HJ-NP-Za-km-z]{5,})/g
RECURSIVE ElidedMatches(_, _)
ElidedMatches(text, i) ==
  IF i > Len(text) THEN << >>
  ELSE LET n == RunLen(text, Base58Set, i)
           m == RunLen(text, Base58Set, i + n + 3)
           prefix == SubSeq(text, i, i + n - 1)
           suffix == SubSeq(text, i + n + 3, i + n + 2 + m)
       IN  IF n >= ELIDED_MIN_LEN /\ MatchesAt(text, ELLIPSIS, i + n) /\ m >= ELIDED_MIN_LEN
           THEN << Found(prefix \o ELLIPSIS \o suffix, i - 1, i - 1 + n + 3 + m) >>
                  \o ElidedMatches(text, i + n + 3 + m)
           ELSE ElidedMatches(text, i + 1)

\* findAddressesInText(text)
findAddressesInText(text) == FullMatches(text, 1) \o ElidedMatches(text, 1)

TEXT_BLOCK_TAGS == {"script", "style", "noscript", "pre", "code"}

\* the tree walker's acceptNode for text node nd
acceptNode(els, nd) ==
  /\ ~nd.inAnchor
  /\ els[nd.parent].tag \notin TEXT_BLOCK_TAGS
  /\ ~els[nd.parent].textProcessed
  /\ ~(Includes(els[nd.parent].className, Str_json) \/ Includes(els[nd.parent].className, Str_code))

\* what scanTextNodesForAddresses collects for text node nd
scanTextNode(els, nd) ==
  IF nd.replaced \/ ~acceptNode(els, nd) THEN << >> ELSE findAddressesInText(nd.text)

\* [...addresses].sort((a, b) => a.startOffset - b.startOffset), a stable sort
RECURSIVE SortByStart(_)
SortByStart(addrs) ==
  IF Len(addrs) <= 1 THEN addrs
  ELSE LET rest == SortByStart(Tail(addrs))
           h == Head(addrs)
           k == Cardinality({ j \in 1..Len(rest) : rest[j].start < h.start })
       IN  SubSeq(rest, 1, k) \o << h >> \o SubSeq(rest, k + 1, Len(rest))

\* addr.address.split('...')
SplitEllipsis(s) ==
  LET k == CHOOSE i \in 1..Len(s) :
             MatchesAt(s, ELLIPSIS, i) /\ \A j \in 1..(i - 1) : ~MatchesAt(s, ELLIPSIS, j)
  IN  << SubSeq(s, 1, k - 1), SubSeq(s, k + 3, Len(s)) >>

\* the known identifiers an elided form matches: startsWith(prefix) && endsWith(suffix)
Candidates(mappings, elided) ==
  LET parts == SplitEllipsis(elided)
  IN  { i \in 1..Len(mappings) :
          StartsWith(mappings[i].k, parts[1]) /\ EndsWith(mappings[i].k, parts[2]) }

Unresolved == [found |-> FALSE, address |-> << >>, mapping |-> Mapping(Input1, 0, 0)]

\* a resolution that keeps the elided text as the address of the match
ResolveElided_KeepsElidedText(mappings, elided) ==
  LET hits == Candidates(mappings, elided)
      first == CHOOSE i \in hits : \A j \in hits : i <= j
  IN  IF hits = {} THEN Unresolved
      ELSE [found |-> TRUE, address |-> elided, mapping |-> mappings[first].v]

\* the loop over the mappings: the first entry, in the Map's order, that matches
ResolveElided(mappings, elided) ==
  LET hits == Candidates(mappings, elided)
      first == CHOOSE i \in hits : \A j \in hits : i <= j
  IN  IF hits = {} THEN Unresolved
      ELSE [found |-> TRUE, address |-> mappings[first].k, mapping |-> mappings[first].v]

\* the mapping and the address one match is annotated with, if any
ResolveMatch(mappings, addr) ==
  IF MapHas(mappings, addr.address)
  THEN [found |-> TRUE, address |-> addr.address, mapping |-> MapGet(mappings, addr.address)]
  ELSE IF Includes(addr.address, ELLIPSIS) THEN ResolveElided(mappings, addr.address)
       ELSE Unresolved

\* a child the fragment receives: a text node or an annotated span
TextPiece(text, from) ==
  [kind |-> "text", text |-> text, from |-> from, wnaAddress |-> NoAttr, wnaName |-> NoAttr,
   color |-> "", title |-> << >>]

SpanPiece(address, mapping, from) ==
  [kind |-> "span",
   text |-> mapping.name \o Str_open \o Take(address, 5) \o ELLIPSIS \o TakeLast(address, 5) \o Str_close,
   from |-> from,
   wnaAddress |-> address,
   wnaName |-> mapping.name,
   color |-> IF mapping.color # Undefined /\ mapping.color # "" THEN mapping.color ELSE "",
   title |-> mapping.name \o Str_nl \o address \o
               (IF Len(mapping.tags) > 0 THEN Str_tags \o Join(mapping.tags, Str_comma) ELSE << >>)]

\* the loop of replaceTextWithAnnotation from the k-th sorted match on
RECURSIVE ReplaceLoop(_, _, _, _, _, _, _)
ReplaceLoop(text, sorted, mappings, k, lastIndex, frag, count) ==
  IF k > Len(sorted) THEN [frag |-> frag, lastIndex |-> lastIndex, count |-> count]
  ELSE LET addr == sorted[k]
           r == ResolveMatch(mappings, addr)
           before == IF addr.start > lastIndex
                     THEN << TextPiece(Substring(text, lastIndex, addr.start), lastIndex) >>
                     ELSE << >>
       IN  IF ~r.found THEN ReplaceLoop(text, sorted, mappings, k + 1, lastIndex, frag, count)
           ELSE ReplaceLoop(text, sorted, mappings, k + 1, addr.end,
                            frag \o before \o << SpanPiece(r.address, r.mapping, addr.start) >>,
                            count + 1)

\* a replacement that forgets the text after the last annotated match
replaceTextWithAnnotation_NoRest(nd, addresses, mappings) ==
  LET out == ReplaceLoop(nd.text, SortByStart(addresses), mappings, 1, 0, << >>, 0)
  IN  IF out.count > 0
      THEN [nd EXCEPT !.replaced = TRUE, !.frag = out.frag]
      ELSE nd

\* a replacement that swaps the fragment in whether or not a match resolved
replaceTextWithAnnotation_AlwaysReplaces(nd, addresses, mappings) ==
  LET out == ReplaceLoop(nd.text, SortByStart(addresses), mappings, 1, 0, << >>, 0)
      rest == IF out.lastIndex < Len(nd.text)
              THEN << TextPiece(Substring(nd.text, out.lastIndex, Len(nd.text)), out.lastIndex) >>
              ELSE << >>
  IN  IF Len(addresses) > 0
      THEN [nd EXCEPT !.replaced = TRUE, !.frag = out.frag \o rest]
      ELSE nd

\* textNode.parentElement of a node that is no longer in the document
NoParent == "none"

\* replaceTextWithAnnotation(textNode, addresses, mappings) on the node record nd
replaceTextWithAnnotation(nd, addresses, mappings) ==
  LET out == ReplaceLoop(nd.text, SortByStart(addresses), mappings, 1, 0, << >>, 0)
      rest == IF out.lastIndex < Len(nd.text)
              THEN << TextPiece(Substring(nd.text, out.lastIndex, Len(nd.text)), out.lastIndex) >>
              ELSE << >>
  IN  IF nd.parent = NoParent THEN nd
      ELSE IF out.count > 0
      THEN [nd EXCEPT !.replaced = TRUE, !.frag = out.frag \o rest]
      ELSE nd

\* a loop without the parent check and without the catch around each node:
\* the first node of the batch that has no parent ends it
annotateTextBatch_NoCatch(nodes, found, mappings) ==
  LET gone == { t \in DOMAIN nodes : found[t] # << >> /\ nodes[t].parent = NoParent }
  IN  [nodes |-> [t \in DOMAIN nodes |->
                    IF found[t] = << >> \/ \E g \in gone : g <= t THEN nodes[t]
                    ELSE replaceTextWithAnnotation(nodes[t], found[t], mappings)],
       threw |-> gone # {}]

\* annotateTextAddresses(textAddresses, mappings) on matches grouped by node:
\* each node of the batch is replaced inside its own try/catch
annotateTextBatch(nodes, found, mappings) ==
  [nodes |-> [t \in DOMAIN nodes |->
                IF found[t] = << >> THEN nodes[t]
                ELSE replaceTextWithAnnotation(nodes[t], found[t], mappings)],
   threw |-> FALSE]

\* the text nodes after scanTextNodesForAddresses + annotateTextAddresses
annotateTextAddresses(els, nodes, mappings) ==
  [t \in DOMAIN nodes |-> replaceTextWithAnnotation(nodes[t], scanTextNode(els, nodes[t]), mappings)]

\* the elements after it: a parent whose text node was replaced gets data-wna-text-processed
markTextParents(els, nodes, after) ==
  [e \in DOMAIN els |->
     IF \E t \in DOMAIN nodes : nodes[t].parent = e /\ ~nodes[t].replaced /\ after[t].replaced
     THEN [els[e] EXCEPT !.textProcessed = TRUE] ELSE els[e]]

TextIds == 1..8

\* no scan result is waiting to be annotated
NoBatch == [status |-> "none", kind |-> "none", texts |-> << >>, links |-> << >>]

Str_pay == <<"p","a","y"," ">>
Str_now == <<" ","n","o","w">>

TextNode(parent, text, inAnchor) ==
  [parent |-> parent, text |-> text, inAnchor |-> inAnchor, replaced |-> FALSE, frag |-> << >>]

\* the text nodes of the page as the host rendered them
InitTexts ==
  [t \in TextIds |->
     CASE t = 1 -> TextNode("e1", Take(IdX, 5) \o ELLIPSIS \o TakeLast(IdX, 5), FALSE)
       [] t = 2 -> TextNode(Body, Str_pay \o Take(IdY, 5) \o ELLIPSIS \o TakeLast(IdY, 5) \o Str_now, FALSE)
       [] t = 3 -> TextNode("e3", IdY, FALSE)
       [] t = 4 -> TextNode("e2", Take(IdX, 5) \o ELLIPSIS \o TakeLast(IdX, 5), FALSE)
       [] t = 5 -> TextNode(Body, HostText, TRUE)
       [] t = 6 -> TextNode("e1", IdY \o <<" ">> \o IdX, FALSE)
       [] t = 7 -> TextNode("e4", Str_pay \o IdY \o ELLIPSIS \o TakeLast(IdY, 5) \o Str_now, FALSE)
       [] t = 8 -> TextNode("e4", Take(IdX, 5) \o ELLIPSIS \o IdY \o Str_now, FALSE)]

(***************************************************************************)
(* Content script (the entrypoint with the DOM observer)                   *)
(***************************************************************************)

\* the delay of the debounce timer
DebounceMs == 500

\* how far one step of time advances the clock
TickMs == 250

NoTimer == -1

MaxPasses == 2
MaxSaves == 2
MaxBurst == 2

PassIds == 1..MaxPasses

\* the anchors of the page the content script runs on
PageAnchorIds == 1..3
SaveIds == {IdX}

\* marked remembers, for the claims only, which anchors carried
\* data-wna-processed when a pass that clears nothing started
FreePass ==
  [status |-> "free", kind |-> "none", gen |-> 0, ok |-> FALSE, data |-> EmptyMap, marked |-> {}]

\* a scanAndAnnotate invocation that has sent GET_ALL_MAPPINGS and awaits the response
SentPass(kind, gen) ==
  [status |-> "sent", kind |-> kind, gen |-> gen, ok |-> FALSE, data |-> EmptyMap, marked |-> {}]

\* scanAndAnnotate() with clearMarkers = false, up to its await
UnforcedPass(kind, ancs) ==
  [SentPass(kind, 0) EXCEPT !.marked = { a \in DOMAIN ancs : ancs[a].processed }]

NoSave == [status |-> "idle", address |-> << >>, input |-> Input1]

\* an observer callback that leaves a pending timer running
RestartTimer_KeepPending(t) == IF t # NoTimer THEN t ELSE DebounceMs

\* the observer callback on added nodes: clearTimeout(scanTimeout), then setTimeout(..., 500)
RestartTimer(t) == DebounceMs

Min2(a, b) == IF a < b THEN a ELSE b
Max2(a, b) == IF a > b THEN a ELSE b

(***************************************************************************)
(* State                                                                    *)
(***************************************************************************)

VARIABLES
  durable,      \* durable storage: the value under local:wna:mappings, as a Map
  cache,        \* per store instance: StorageCache.mappingsCache (present or null)
  ops,          \* the MappingStorage calls in progress, one per slot
  clock,        \* Date.now()
  lastLoaded,   \* per store instance: what storage.getItem returned to the last load
  started,      \* how many MappingStorage calls have been started
  anchors,      \* the anchors of the document
  elems,        \* the container elements of the document
  lastWritten,  \* the anchors whose text the latest annotation call set
  lastOp,       \* the latest pipeline operation
  tnodes,       \* the text nodes of the document and what replaced them
  batch,        \* the matches a caller got from a scan and has not yet annotated
  pcMain,       \* where the content script's main() is
  passes,       \* the scanAndAnnotate invocations in progress, one per slot
  save,         \* the saveMapping call in progress
  saves,        \* how many saveMapping calls have been started
  timer,        \* scanTimeout's timer: milliseconds left, or NoTimer
  sinceMutation,\* milliseconds since the observer last saw added nodes (saturating)
  burst,        \* added-node notifications since the last timer-triggered pass (saturating)
  firedSince,   \* timer-triggered passes started since the last added-node notification
  forced,       \* the forced re-scan of the latest save: "early" if it started during
                \* the initial scan, else "running", then "done" or "failed" by its fetch
  port,         \* an export/clear/import sequence: its stage, the exported data, the importer
  probe,        \* a call of the validator: its argument and, once it returned, its result
  invalidated,  \* whether the extension context of the content script has been invalidated
  held          \* the Map object a caller got from getAll and may change

storeVars == <<cache, ops, clock, lastLoaded, started>>
domVars   == <<anchors, elems, lastWritten, lastOp>>
textVars  == <<tnodes, batch>>
schedVars == <<pcMain, passes, save, saves, timer, sinceMutation, burst, firedSince, forced>>
portVars  == <<port, probe, held>>
ctxVars   == <<invalidated>>
vars      == <<durable, storeVars, domVars, textVars, schedVars, portVars, ctxVars>>

\* a step of the label store leaves the document alone
OnlyStore == UNCHANGED <<domVars, textVars, schedVars, portVars, ctxVars>>

\* a step of the scan pipeline leaves the store's cache and calls alone
OnlyDom == UNCHANGED <<storeVars, textVars, schedVars, portVars, ctxVars>>

\* what a step of the text pipeline leaves alone
OnlyText == UNCHANGED <<storeVars, anchors, lastWritten, batch, schedVars, portVars, ctxVars>>

\* what a step of the content script leaves alone
OnlyContent == UNCHANGED <<storeVars, textVars, elems, lastWritten, lastOp, portVars, ctxVars>>

(***************************************************************************)
(* Label store: src/lib/storage/storage.ts                                 *)
(*                                                                          *)
(* A call is a sequence of steps separated by its awaits.  An await on     *)
(* durable storage takes two steps: storage serves the request (the read   *)
(* sees, or the write changes, the stored value) and, later, the call      *)
(* resumes.  Calls in different slots interleave freely between steps.     *)
(***************************************************************************)

MaxOps    == 2
MaxStarts == 3

Instances == {"bg", "popup"}
StoreIds  == {IdX, IdY}
Slots     == 1..MaxOps

CacheNull == [present |-> FALSE, map |-> EmptyMap]
CacheOf(m) == [present |-> TRUE, map |-> m]

IdleOp ==
  [kind |-> "idle", inst |-> "bg", pc |-> "idle", address |-> << >>, input |-> Input1,
   now |-> 0, hasExisting |-> FALSE, created |-> 0, data |-> EmptyMap]

NewOp(kind, inst, address, input, now) ==
  [IdleOp EXCEPT !.kind = kind, !.inst = inst, !.address = address, !.input = input,
                 !.now = now]

\* cache.invalidateMappings()
invalidateMappings(c, inst) == [c EXCEPT ![inst] = CacheNull]

\* cache.setMappings(new Map(mappings))
setMappings(c, inst, m) == [c EXCEPT ![inst] = CacheOf(m)]

\* save's record: created_at: existing?.created_at ?? now, updated_at: now
SavedMapping(op) ==
  Mapping(op.input, IF op.hasExisting THEN op.created ELSE op.now, op.now)

\* existing = (the map get saw).get(address) ?? null
WithExisting(op, m) ==
  [op EXCEPT !.hasExisting = MapHas(m, op.address),
             !.created = IF MapHas(m, op.address) THEN MapGet(m, op.address).created_at ELSE 0]

\* save, from `mappings.set(address, mapping)` to the call of storage.setItem
SaveIssueWrite(op, m) ==
  [NewOp("save", op.inst, op.address, Input1, 0) EXCEPT
     !.data = MapSet(m, op.address, SavedMapping(op)), !.pc = "writing"]

\* delete, from `existed = mappings.has(address)` on: false is returned at
\* once, otherwise the map without the record is handed to storage.setItem
DeleteIssueWrite(op, m) ==
  IF MapHas(m, op.address)
  THEN [op EXCEPT !.data = MapDelete(m, op.address), !.pc = "writing"]
  ELSE IdleOp

\* a call's continuation once its first getAll has answered with the map m
AfterFirstGetAll(op, m) ==
  CASE op.kind = "save"   -> [WithExisting(op, m) EXCEPT !.pc = "afterGet"]
    [] op.kind = "delete" -> DeleteIssueWrite(op, m)
    [] OTHER              -> IdleOp

\* a call may start in the lowest free slot while the budget of calls lasts
CanStart(s) ==
  /\ started < MaxStarts
  /\ ops[s].kind = "idle"
  /\ \A t \in Slots : t < s => ops[t].kind # "idle"

\* getAll called by a new call: a cache hit answers with a copy of the cache,
\* a miss issues storage.getItem and suspends
FirstGetAll(op) ==
  IF cache[op.inst].present THEN AfterFirstGetAll(op, cache[op.inst].map)
  ELSE [op EXCEPT !.pc = "reading"]

StartGetAll(s, inst) ==
  /\ CanStart(s)
  /\ ops' = [ops EXCEPT ![s] = FirstGetAll(NewOp("getAll", inst, << >>, Input1, 0))]
  /\ started' = started + 1
  /\ UNCHANGED <<durable, cache, clock, lastLoaded>>
  /\ OnlyStore

StartGet(s, inst, address) ==
  /\ CanStart(s)
  /\ ops' = [ops EXCEPT ![s] = FirstGetAll(NewOp("get", inst, address, Input1, 0))]
  /\ started' = started + 1
  /\ UNCHANGED <<durable, cache, clock, lastLoaded>>
  /\ OnlyStore

\* now = Date.now(); existing = await this.get(address)
StartSave(s, inst, address, input) ==
  /\ CanStart(s)
  /\ ops' = [ops EXCEPT ![s] = FirstGetAll(NewOp("save", inst, address, input, clock))]
  /\ started' = started + 1
  /\ UNCHANGED <<durable, cache, clock, lastLoaded>>
  /\ OnlyStore

StartDelete(s, inst, address) ==
  /\ CanStart(s)
  /\ ops' = [ops EXCEPT ![s] = FirstGetAll(NewOp("delete", inst, address, Input1, 0))]
  /\ started' = started + 1
  /\ UNCHANGED <<durable, cache, clock, lastLoaded>>
  /\ OnlyStore

\* clear: await storage.setItem(key, {})
StartClear(s, inst) ==
  /\ CanStart(s)
  /\ ops' = [ops EXCEPT ![s] =
               [NewOp("clear", inst, << >>, Input1, 0) EXCEPT !.pc = "writing"]]
  /\ started' = started + 1
  /\ UNCHANGED <<durable, cache, clock, lastLoaded>>
  /\ OnlyStore

\* save after `await this.get(address)`: mappings = await this.getAll()
SaveSecondGetAll(s) ==
  /\ ops[s].pc = "afterGet"
  /\ ops' = [ops EXCEPT ![s] =
               IF cache[ops[s].inst].present
               THEN SaveIssueWrite(ops[s], cache[ops[s].inst].map)
               ELSE [ops[s] EXCEPT !.pc = "reading2"]]
  /\ UNCHANGED <<durable, cache, clock, lastLoaded, started>>
  /\ OnlyStore

\* durable storage serves a pending storage.getItem
StorageRead(s) ==
  /\ ops[s].pc \in {"reading", "reading2"}
  /\ ops' = [ops EXCEPT ![s].data = durable,
                        ![s].pc = IF ops[s].pc = "reading" THEN "loaded" ELSE "loaded2"]
  /\ UNCHANGED <<durable, cache, clock, lastLoaded, started>>
  /\ OnlyStore

\* the call that the cache stores a load's result through
LoadIntoCache(c, inst, m) == setMappings(c, inst, m)

\* getAll resumes after storage.getItem: cache.setMappings(new Map(mappings)),
\* return mappings; then its caller continues
LoadResume(s) ==
  /\ ops[s].pc \in {"loaded", "loaded2"}
  /\ cache' = LoadIntoCache(cache, ops[s].inst, ops[s].data)
  /\ lastLoaded' = [lastLoaded EXCEPT ![ops[s].inst] = ops[s].data]
  /\ ops' = [ops EXCEPT ![s] =
               IF ops[s].pc = "loaded" THEN AfterFirstGetAll(ops[s], ops[s].data)
               ELSE SaveIssueWrite(ops[s], ops[s].data)]
  /\ UNCHANGED <<durable, clock, started>>
  /\ OnlyStore

\* durable storage serves a pending storage.setItem
StorageWrite(s) ==
  /\ ops[s].pc = "writing"
  /\ durable' = ops[s].data
  /\ ops' = [ops EXCEPT ![s].pc = "written", ![s].data = EmptyMap]
  /\ UNCHANGED <<cache, clock, lastLoaded, started>>
  /\ OnlyStore

\* a write that patches the cache with what it wrote instead of dropping it
CacheAfterWrite_Patch(c, op) == setMappings(c, op.inst, durable)

\* what save, delete and clear do to the cache after the write: invalidate it
CacheAfterWrite(c, op) == invalidateMappings(c, op.inst)

\* save, delete and clear resume after storage.setItem and return
WriteResume(s) ==
  /\ ops[s].pc = "written"
  /\ cache' = CacheAfterWrite(cache, ops[s])
  /\ ops' = [ops EXCEPT ![s] = IdleOp]
  /\ UNCHANGED <<durable, clock, lastLoaded, started>>
  /\ OnlyStore

\* the caller holds no Map
NoHeld == [present |-> FALSE, map |-> EmptyMap, shared |-> FALSE, from |-> "none"]

\* no validator call
NoProbe == [arg |-> << >>, done |-> FALSE, value |-> FALSE]

\* no export taken
NoPort == [pc |-> "idle", data |-> EmptyMap, via |-> "none"]

\* a store with nothing saved and nothing cached, on an untouched page
\* the state when a library call sequence starts: the whole sample document
InitDoc ==
  /\ durable = EmptyMap
  /\ cache = [i \in Instances |-> CacheNull]
  /\ ops = [s \in Slots |-> IdleOp]
  /\ clock = 0
  /\ lastLoaded = [i \in Instances |-> EmptyMap]
  /\ started = 0
  /\ anchors = InitAnchors
  /\ elems = InitElems
  /\ lastWritten = {}
  /\ lastOp = "none"
  /\ tnodes = InitTexts
  /\ batch = NoBatch
  /\ pcMain = "loading"
  /\ passes = [p \in PassIds |-> FreePass]
  /\ save = NoSave
  /\ saves = 0
  /\ timer = NoTimer
  /\ sinceMutation = DebounceMs
  /\ burst = 0
  /\ firedSince = 0
  /\ forced = "none"
  /\ port = NoPort
  /\ probe = NoProbe
  /\ invalidated = FALSE
  /\ held = NoHeld

\* the state when the content script starts on a page
Init ==
  /\ durable = EmptyMap
  /\ cache = [i \in Instances |-> CacheNull]
  /\ ops = [s \in Slots |-> IdleOp]
  /\ clock = 0
  /\ lastLoaded = [i \in Instances |-> EmptyMap]
  /\ started = 0
  /\ anchors = [a \in PageAnchorIds |-> InitAnchors[a]]
  /\ elems = InitElems
  /\ lastWritten = {}
  /\ lastOp = "none"
  /\ tnodes = << >>
  /\ batch = NoBatch
  /\ pcMain = "loading"
  /\ passes = [p \in PassIds |-> FreePass]
  /\ save = NoSave
  /\ saves = 0
  /\ timer = NoTimer
  /\ sinceMutation = DebounceMs
  /\ burst = 0
  /\ firedSince = 0
  /\ forced = "none"
  /\ port = NoPort
  /\ probe = NoProbe
  /\ invalidated = FALSE
  /\ held = NoHeld

\* the calls of one store instance, the background worker's
StoreNext ==
  \/ \E s \in Slots : StartGetAll(s, "bg")
  \/ \E s \in Slots, id \in StoreIds : StartGet(s, "bg", id)
  \/ \E s \in Slots, id \in StoreIds, input \in Inputs : StartSave(s, "bg", id, input)
  \/ \E s \in Slots, id \in StoreIds : StartDelete(s, "bg", id)
  \/ \E s \in Slots : StartClear(s, "bg")
  \/ \E s \in Slots : SaveSecondGetAll(s)
  \/ \E s \in Slots : StorageRead(s)
  \/ \E s \in Slots : LoadResume(s)
  \/ \E s \in Slots : StorageWrite(s)
  \/ \E s \in Slots : WriteResume(s)

SpecStore == InitDoc /\ [][StoreNext]_vars

(***************************************************************************)
(* Claims about the label store                                            *)
(***************************************************************************)

Quiescent == \A s \in Slots : ops[s].kind = "idle"

\* C3: once every started getAll, save, delete and clear of one store instance
\* has completed, the mappings cache is absent or equals durable storage.
C3_QuiescentCacheFresh ==
  Quiescent => (~cache["bg"].present \/ cache["bg"].map = durable)

\* C4: the cache, when present, is the value durable storage returned to the
\* latest load; the cache changes only when a load stores what it read, or when
\* a save, delete or clear whose write is already committed drops it.
C4_CacheOnlyLoadedOrDropped ==
  /\ [](\A i \in Instances : cache[i].present => cache[i].map = lastLoaded[i])
  /\ [][\A i \in Instances :
          cache'[i] # cache[i] =>
            \/ /\ cache'[i].present
               /\ \E s \in Slots : /\ ops[s].pc \in {"loaded", "loaded2"}
                                   /\ ops[s].inst = i
                                   /\ cache'[i].map = ops[s].data
            \/ /\ ~cache'[i].present
               /\ \E s \in Slots : /\ ops[s].pc = "written"
                                   /\ ops[s].inst = i
                                   /\ ops'[s].kind = "idle"]_vars

\* a write has been committed while the cache still holds an earlier, non-empty load
C4_Witness ==
  /\ cache["bg"].present
  /\ cache["bg"].map # EmptyMap
  /\ cache["bg"].map # durable
  /\ \E s \in Slots : ops[s].pc = "written"

\* the record a map holds for id, if any
RecordOf(m, id) == IF MapHas(m, id) THEN << MapGet(m, id) >> ELSE << >>

\* C21: the write of a delete that found the record (and returns true)
\* removes that record from storage and leaves the record of every other
\* identifier as it was; a delete that found none writes nothing.
C21_DeleteExact ==
  [][\A s \in Slots :
       (ops[s].kind = "delete" /\ durable' # durable /\ ops[s].pc = "writing" /\ ops'[s].pc = "written") =>
          /\ ~MapHas(durable', ops[s].address)
          /\ \A id \in StoreIds \ {ops[s].address} : RecordOf(durable', id) = RecordOf(durable, id)]_vars

(***************************************************************************)
(* Two saves on different identifiers in one store instance, the way the   *)
(* background worker runs two SAVE_MAPPING messages: the second handler    *)
(* may start while the first is suspended at an await                      *)
(***************************************************************************)

\* the first message saves IdX, the second saves IdY
SaveMessage(s, input) ==
  /\ started < 2
  /\ StartSave(s, "bg", IF started = 0 THEN IdX ELSE IdY, input)

TwoSavesNext ==
  \/ \E s \in Slots, input \in Inputs : SaveMessage(s, input)
  \/ \E s \in Slots : SaveSecondGetAll(s)
  \/ \E s \in Slots : StorageRead(s)
  \/ \E s \in Slots : LoadResume(s)
  \/ \E s \in Slots : StorageWrite(s)
  \/ \E s \in Slots : WriteResume(s)

SpecTwoSaves == InitDoc /\ [][TwoSavesNext]_vars

\* C23: once save(IdX) and save(IdY) have both completed, storage holds a
\* record for IdX and a record for IdY.
C23_BothSavesKept ==
  (started = 2 /\ Quiescent) => (MapHas(durable, IdX) /\ MapHas(durable, IdY))

(***************************************************************************)
(* Two store instances over the same storage: the popup page and the       *)
(* background worker each load lib/storage/storage.ts into their own       *)
(* script context, so each has its own `cache`.  Calls run one at a time.  *)
(***************************************************************************)

\* loadMappings() in the popup, GET_ALL_MAPPINGS in the background
CallGetAll(inst) == Quiescent /\ StartGetAll(1, inst)

\* handleSaveEdit / handleSaveAdd in the popup, SAVE_MAPPING in the background
CallSave(inst, id, input) == Quiescent /\ StartSave(1, inst, id, input)

\* handleDelete in the popup
CallDelete(inst, id) == Quiescent /\ StartDelete(1, inst, id)

TwoInstNext ==
  \/ \E inst \in Instances : CallGetAll(inst)
  \/ \E inst \in Instances, id \in StoreIds, input \in Inputs : CallSave(inst, id, input)
  \/ \E inst \in Instances, id \in StoreIds : CallDelete(inst, id)
  \/ \E s \in Slots : SaveSecondGetAll(s)
  \/ \E s \in Slots : StorageRead(s)
  \/ \E s \in Slots : LoadResume(s)
  \/ \E s \in Slots : StorageWrite(s)
  \/ \E s \in Slots : WriteResume(s)

SpecTwoInst == InitDoc /\ [][TwoInstNext]_vars

\* what the next getAll of an instance returns
NextGetAll(inst) == IF cache[inst].present THEN cache[inst].map ELSE durable

\* C24: whenever no call is running, the next getAll of either instance
\* returns what storage holds, whichever instance wrote last.
C24_OtherInstanceSeesWrite ==
  Quiescent => \A inst \in Instances : MapSameContent(NextGetAll(inst), durable)

(***************************************************************************)
(* The label store with a running clock: saves of one store instance read  *)
(* Date.now() at their start while time passes between the steps.          *)
(***************************************************************************)

MaxClock == 2

\* time passes: Date.now() never decreases
ClockTick ==
  /\ clock < MaxClock
  /\ clock' = clock + 1
  /\ UNCHANGED <<durable, cache, ops, lastLoaded, started>>
  /\ OnlyStore

TimeNext ==
  \/ ClockTick
  \/ \E s \in Slots, id \in StoreIds, input \in Inputs : StartSave(s, "bg", id, input)
  \/ \E s \in Slots : SaveSecondGetAll(s)
  \/ \E s \in Slots : StorageRead(s)
  \/ \E s \in Slots : LoadResume(s)
  \/ \E s \in Slots : StorageWrite(s)
  \/ \E s \in Slots : WriteResume(s)

SpecTime == InitDoc /\ [][TimeNext]_vars

\* C12: a record that appears in storage has created_at = updated_at, the time
\* of the save that made it; a save that changes a stored record keeps its
\* created_at and does not move updated_at back; every stored record has
\* created_at <= updated_at.
C12_Timestamps ==
  /\ [](\A id \in MapKeys(durable) :
          MapGet(durable, id).created_at <= MapGet(durable, id).updated_at)
  /\ [][\A id \in MapKeys(durable') :
          IF MapHas(durable, id)
          THEN /\ MapGet(durable', id).created_at = MapGet(durable, id).created_at
               /\ MapGet(durable', id).updated_at >= MapGet(durable, id).updated_at
          ELSE /\ MapGet(durable', id).created_at = MapGet(durable', id).updated_at
               /\ MapGet(durable', id).updated_at <= clock]_vars

(***************************************************************************)
(* Export, clear, import: src/lib/utils/address.ts (the importer that      *)
(* writes the validated data to storage) and                               *)
(* src/lib/storage/import-export.ts (the importer that saves each record)  *)
(***************************************************************************)

\* what only the export/import sequence and the clock leave alone
OnlyPort == UNCHANGED <<cache, ops, lastLoaded, started, domVars, textVars, schedVars, ctxVars>>

\* a save that completes on its own at the current time
SaveAt(id, input) ==
  /\ port.pc = "idle"
  /\ durable' = MapSet(durable, id,
                       Mapping(input,
                               IF MapHas(durable, id) THEN MapGet(durable, id).created_at ELSE clock,
                               clock))
  /\ UNCHANGED <<clock, portVars>>
  /\ OnlyPort

\* exportData: the mappings as storage holds them
exportData(stored) == stored

ExportData ==
  /\ port.pc = "idle"
  /\ durable # EmptyMap
  /\ port' = [port EXCEPT !.pc = "exported", !.data = exportData(durable)]
  /\ UNCHANGED <<durable, clock, probe, held>>
  /\ OnlyPort

\* MappingStorage.clear / clearAllData
ClearAll ==
  /\ port.pc = "exported"
  /\ durable' = EmptyMap
  /\ port' = [port EXCEPT !.pc = "cleared"]
  /\ UNCHANGED <<clock, probe, held>>
  /\ OnlyPort

\* AddressMappingSchema: name non-empty, color absent or #RRGGBB
ValidMapping(r) == r.name # << >> /\ r.color \in {Undefined, Color1}

\* the schema's parse of one record: the known fields
ParseMapping(r) ==
  [name |-> r.name, tags |-> r.tags, color |-> r.color,
   created_at |-> r.created_at, updated_at |-> r.updated_at]

\* importData of address.ts, overwrite mode: validate, then
\* storage.setItem("local:wna:mappings", importedData.mappings)
importData_overwrite(stored, data) ==
  IF \A i \in 1..Len(data) : ValidMapping(data[i].v)
  THEN [i \in 1..Len(data) |-> [k |-> data[i].k, v |-> ParseMapping(data[i].v)]]
  ELSE stored

\* createMapping(name, tags, color): both timestamps are Date.now()
createMapping(name, tags, color, now) ==
  [name |-> name, tags |-> tags, color |-> color, created_at |-> now, updated_at |-> now]

\* updateMapping(existing, {name, tags, color}): updated_at is Date.now()
updateMapping(existing, name, tags, color, now) ==
  [existing EXCEPT !.name = name, !.tags = tags, !.color = color, !.updated_at = now]

\* saveMapping(address, name, tags, color) of the functions the importer calls
saveMapping(stored, address, name, tags, color, now) ==
  MapSet(stored, address,
         IF MapHas(stored, address)
         THEN updateMapping(MapGet(stored, address), name, tags, color, now)
         ELSE createMapping(name, tags, color, now))

\* importData of import-export.ts: saveMapping(address, mapping.name,
\* mapping.tags || [], mapping.color) for each entry of data.mappings
RECURSIVE importData_saves(_, _, _)
importData_saves(stored, data, now) ==
  IF data = << >> THEN stored
  ELSE importData_saves(
         saveMapping(stored, Head(data).k, Head(data).v.name, Head(data).v.tags,
                     Head(data).v.color, now),
         Tail(data), now)

ImportOverwrite ==
  /\ port.pc = "cleared"
  /\ durable' = importData_overwrite(durable, port.data)
  /\ port' = [port EXCEPT !.pc = "imported", !.via = "overwrite"]
  /\ UNCHANGED <<clock, probe, held>>
  /\ OnlyPort

ImportBySaves ==
  /\ port.pc = "cleared"
  /\ durable' = importData_saves(durable, port.data, clock)
  /\ port' = [port EXCEPT !.pc = "imported", !.via = "saves"]
  /\ UNCHANGED <<clock, probe, held>>
  /\ OnlyPort

PortNext ==
  \/ \E id \in StoreIds, input \in Inputs : SaveAt(id, input)
  \/ ClockTick
  \/ ExportData
  \/ ClearAll
  \/ ImportOverwrite
  \/ ImportBySaves

SpecPort == InitDoc /\ [][PortNext]_vars

\* C13: after export, clear and import, storage holds for every exported
\* identifier the name, tags, color, created_at and updated_at it held at the
\* export, and holds no other identifier.
C13_RoundTripRestores ==
  port.pc = "imported" => MapSameContent(durable, port.data)

(***************************************************************************)
(* The validator on its own: one call per behaviour, on a string of the    *)
(* sample set or on a value that is not a string                           *)
(***************************************************************************)

\* lengths around the two limits
SampleLens == {0, 1, 31, 32, 33, 43, 44, 45}
Pads == {<< >>, <<" ">>, <<"\t", " ">>}
BadChars == {"0", "O", "I", "l", "-", " "}

\* a base58 string of n characters
Base58String(n) == [i \in 1..n |-> BASE58_CHARS[((i * 7) % Len(BASE58_CHARS)) + 1]]

\* s with the character at position i replaced by c
WithCharAt(s, i, c) == [s EXCEPT ![i] = c]

ValidatorInputs ==
  {NotAString}
    \cup { l \o Base58String(n) \o r : l \in Pads, r \in Pads, n \in SampleLens }
    \cup { WithCharAt(Base58String(n), i, c) :
             n \in {MIN_ADDRESS_LEN, MAX_ADDRESS_LEN}, i \in {1, 16, MIN_ADDRESS_LEN}, c \in BadChars }

InitValid ==
  /\ durable = EmptyMap
  /\ cache = [i \in Instances |-> CacheNull]
  /\ ops = [s \in Slots |-> IdleOp]
  /\ clock = 0
  /\ lastLoaded = [i \in Instances |-> EmptyMap]
  /\ started = 0
  /\ anchors = InitAnchors
  /\ elems = InitElems
  /\ lastWritten = {}
  /\ lastOp = "none"
  /\ tnodes = InitTexts
  /\ batch = NoBatch
  /\ pcMain = "loading"
  /\ passes = [p \in PassIds |-> FreePass]
  /\ save = NoSave
  /\ saves = 0
  /\ timer = NoTimer
  /\ sinceMutation = DebounceMs
  /\ burst = 0
  /\ firedSince = 0
  /\ forced = "none"
  /\ port = NoPort
  /\ probe \in { [NoProbe EXCEPT !.arg = a] : a \in ValidatorInputs }
  /\ invalidated = FALSE
  /\ held = NoHeld

\* isValidSolanaAddress(arg) is called and returns
Validate ==
  /\ ~probe.done
  /\ probe' = [probe EXCEPT !.done = TRUE, !.value = isValidSolanaAddress(probe.arg)]
  /\ UNCHANGED <<durable, storeVars, domVars, textVars, schedVars, port, held, ctxVars>>

ValidNext == Validate

SpecValid == InitValid /\ [][ValidNext]_vars

\* s is a string that, between its leading and trailing whitespace, has 32 to
\* 44 characters, all of them base58
WellFormed(s) ==
  /\ s # NotAString
  /\ \E i, j \in 1..Len(s) :
       /\ \A k \in 1..Len(s) : (k < i \/ k > j) => s[k] \in WhiteSet
       /\ s[i] \notin WhiteSet /\ s[j] \notin WhiteSet
       /\ j - i + 1 >= 32 /\ j - i + 1 <= 44
       /\ \A k \in i..j : s[k] \in Base58Set

\* C14: isValidSolanaAddress answers true exactly for the strings whose trimmed
\* form has 32 to 44 base58 characters, and false for the empty string and for
\* values that are not strings; 31 and 45 characters are rejected, 32 and 44
\* accepted.
C14_ValidExactly ==
  probe.done =>
    /\ probe.value = WellFormed(probe.arg)
    /\ probe.arg \in {NotAString, << >>} => ~probe.value
    /\ \A n \in {31, 45} : probe.arg = Base58String(n) => ~probe.value
    /\ \A n \in {32, 44} : probe.arg = Base58String(n) => probe.value

\* a padded identifier of 44 characters was accepted
C14_Witness ==
  /\ probe.done /\ probe.value
  /\ Len(probe.arg) > 44
  /\ Len(Trim(probe.arg)) = 44

(***************************************************************************)
(* The Map objects getAll hands out: src/lib/storage/storage.ts:67-80.     *)
(* A Map is an object, so the model says whether the Map the caller holds  *)
(* is the very object the cache holds (shared) or another one.             *)
(***************************************************************************)

\* what only the calls of this section leave alone
OnlyCopy == UNCHANGED <<ops, clock, lastLoaded, started, domVars, textVars, schedVars,
                        port, probe, ctxVars>>

\* a getAll that hands out the cached Map itself
getAllHit_ReturnsCached(cached) ==
  [present |-> TRUE, map |-> cached, shared |-> TRUE, from |-> "cache"]

\* getAll on a cache hit: return new Map(cached)
getAllHit(cached) ==
  [present |-> TRUE, map |-> cached, shared |-> FALSE, from |-> "cache"]

\* getAll on a miss: mappings = new Map(Object.entries(data ?? {}));
\* cache.setMappings(new Map(mappings)); return mappings
getAllMiss(data) ==
  [present |-> TRUE, map |-> data, shared |-> FALSE, from |-> "load"]

\* a caller calls getAll and keeps the Map it returns
CopyGetAll ==
  /\ IF cache["bg"].present
     THEN /\ held' = getAllHit(cache["bg"].map)
          /\ cache' = cache
     ELSE /\ held' = getAllMiss(durable)
          /\ cache' = setMappings(cache, "bg", durable)
  /\ UNCHANGED durable
  /\ OnlyCopy

\* the cache after the caller's Map became m: the same object, or untouched
CacheSeeing(m) ==
  IF held.shared /\ cache["bg"].present THEN setMappings(cache, "bg", m) ELSE cache

\* the caller adds or replaces an entry of the Map it holds
CallerSet(id, input) ==
  /\ held.present
  /\ held' = [held EXCEPT !.map = MapSet(held.map, id, Mapping(input, 0, 0))]
  /\ cache' = CacheSeeing(held'.map)
  /\ UNCHANGED durable
  /\ OnlyCopy

\* the caller deletes an entry of the Map it holds
CallerDelete(id) ==
  /\ held.present
  /\ MapHas(held.map, id)
  /\ held' = [held EXCEPT !.map = MapDelete(held.map, id)]
  /\ cache' = CacheSeeing(held'.map)
  /\ UNCHANGED durable
  /\ OnlyCopy

\* a save that completes on its own: the record is stored, the cache dropped
CopySave(id, input) ==
  /\ durable' = MapSet(durable, id, Mapping(input, 0, 0))
  /\ cache' = invalidateMappings(cache, "bg")
  /\ UNCHANGED held
  /\ OnlyCopy

CopyNext ==
  \/ CopyGetAll
  \/ \E id \in StoreIds, input \in Inputs : CallerSet(id, input)
  \/ \E id \in StoreIds : CallerDelete(id)
  \/ \E id \in StoreIds, input \in Inputs : CopySave(id, input)

SpecCopy == InitDoc /\ [][CopyNext]_vars

\* what getAll would return now, and get for one identifier
WouldGetAll == IF cache["bg"].present THEN cache["bg"].map ELSE durable
WouldGet(id) == IF MapHas(WouldGetAll, id) THEN << MapGet(WouldGetAll, id) >> ELSE << >>

\* C20: a step in which the caller adds, replaces or deletes an entry of the
\* Map it got from getAll changes neither what getAll nor what get returns
\* from then on, whether that Map came from the cache or from a load.
C20_ReturnedMapIsACopy ==
  [][(held.present /\ held'.map # held.map /\ durable' = durable)
       => /\ WouldGetAll' = WouldGetAll
          /\ \A id \in StoreIds : WouldGet(id)' = WouldGet(id)]_vars

\* the caller changed a Map that a cache hit returned, and the cache differs from it
C20_Witness ==
  /\ held.present /\ held.from = "cache"
  /\ cache["bg"].present
  /\ cache["bg"].map # EmptyMap
  /\ held.map # cache["bg"].map
  /\ cache["bg"].map = durable

(***************************************************************************)
(* The link pipeline on its own: scans, annotations, marker clearing and   *)
(* label edits in any order.  The label set handed to the annotator is the *)
(* store's content.                                                         *)
(***************************************************************************)

\* scanForAddressLinks(document.body) followed by annotateAddressLinks(links, mappings)
LinkPass ==
  /\ LET links == scanForAddressLinks(elems, anchors)
     IN  /\ anchors' = annotateAddressLinks(anchors, links, durable)
         /\ lastWritten' = WrittenBy(links, durable)
  /\ lastOp' = "pass"
  /\ UNCHANGED <<elems, durable>>
  /\ OnlyDom

\* clearAllProcessedMarkers(document.body)
ClearMarkers ==
  /\ anchors' = clearAllProcessedMarkers(anchors)
  /\ lastOp' = "clear"
  /\ UNCHANGED <<elems, lastWritten, durable>>
  /\ OnlyDom

\* unannotateLink(element)
Unannotate(a) ==
  /\ anchors' = [anchors EXCEPT ![a] = unannotateLink(@)]
  /\ lastOp' = "unannotate"
  /\ UNCHANGED <<elems, lastWritten, durable>>
  /\ OnlyDom

\* annotateTextAddresses' effect on the containers: after at least one
\* occurrence in a text node was wrapped, the node's parent element gets
\* data-wna-text-processed (text-scanner.ts, replaceTextWithAnnotation)
TextMark(e) ==
  /\ ~elems[e].textProcessed
  /\ elems' = [elems EXCEPT ![e].textProcessed = TRUE]
  /\ lastOp' = "textmark"
  /\ UNCHANGED <<anchors, lastWritten, durable>>
  /\ OnlyDom

\* the label set changes: a record is saved
EditLabel(id, input) ==
  /\ durable' = MapSet(durable, id, Mapping(input, 0, 0))
  /\ lastOp' = "edit"
  /\ UNCHANGED <<anchors, elems, lastWritten>>
  /\ OnlyDom

\* the label set changes: a record is deleted
RemoveLabel(id) ==
  /\ MapHas(durable, id)
  /\ durable' = MapDelete(durable, id)
  /\ lastOp' = "edit"
  /\ UNCHANGED <<anchors, elems, lastWritten>>
  /\ OnlyDom

\* the page as the host rendered it, and no labels yet
LinkNext ==
  \/ LinkPass
  \/ ClearMarkers
  \/ \E a \in AnchorIds : Unannotate(a)
  \/ \E e \in {"e1"} : TextMark(e)
  \/ \E id \in StoreIds, input \in Inputs : EditLabel(id, input)
  \/ \E id \in StoreIds : RemoveLabel(id)

SpecLink == InitDoc /\ [][LinkNext]_vars

(***************************************************************************)
(* Claims about the link pipeline                                          *)
(***************************************************************************)

\* C5: a scan + annotate pass that directly follows another, with the document
\* and the label set unchanged in between, writes no anchor again and leaves
\* the document (text, attributes, markers) exactly as the first pass left it.
C5_SecondPassChangesNothing ==
  lastOp = "pass" =>
    LET links == scanForAddressLinks(elems, anchors)
    IN  /\ annotateAddressLinks(anchors, links, durable) = anchors
        /\ WrittenBy(links, durable) = {}

\* a second pass in a row has run over an anchor the first pass annotated
\* and an anchor it only marked
C5_Witness ==
  /\ lastOp = "pass"
  /\ lastWritten = {}
  /\ anchors[1].annotated /\ anchors[1].processed
  /\ anchors[2].processed /\ ~anchors[2].annotated

\* the identifier the scanner reads from anchor a's href, when it is a valid one
HrefId(a) == extractAddressFromHref(anchors[a].href)
HasValidHrefId(a) == HrefId(a) # NoMatch /\ isValidSolanaAddress(HrefId(a))

\* "<name> (<first 5 characters>...<last 5 characters>)", spelled out
ExpectedText(name, id) ==
  name \o <<" ", "(">> \o SubSeq(id, 1, 5) \o <<".", ".", ".">>
       \o SubSeq(id, Len(id) - 4, Len(id)) \o <<")">>

ShowsLabel(a, store) ==
  /\ anchors'[a].text = ExpectedText(MapGet(store, HrefId(a)).name, HrefId(a))
  /\ anchors'[a].processed

\* C6 as stated: after one pass every anchor whose href carries a valid
\* identifier that has a saved label shows "<name> (first5...last5)" and is
\* marked processed.
C6_EveryLabelledAnchorShown ==
  [][lastOp' = "pass" =>
       \A a \in AnchorIds :
         (HasValidHrefId(a) /\ MapHas(durable, HrefId(a))) => ShowsLabel(a, durable)]_vars

\* C6 as amended: the same for every such anchor that is outside the denylisted
\* containers and does not already carry the processed marker when the pass starts.
C6_ScannedLabelledAnchorShown ==
  [][lastOp' = "pass" =>
       \A a \in AnchorIds :
         ( /\ HasValidHrefId(a) /\ MapHas(durable, HrefId(a))
           /\ ~shouldSkipElement(elems, anchors[a])
           /\ ~anchors[a].processed ) => ShowsLabel(a, durable)]_vars

\* a pass has just annotated the /account/ anchor and the /token/ anchor
C6_Witness ==
  /\ lastOp = "pass"
  /\ lastWritten = {1, 2}
  /\ anchors[1].text = ExpectedText(Name1, IdX)
  /\ anchors[2].text = ExpectedText(Name2, IdY)

\* C7: whatever the pipeline does (scans, annotations, marker clearing,
\* un-annotation, text markers, label edits), every anchor keeps its href.
C7_HrefNeverChanges ==
  \A a \in AnchorIds : anchors[a].href = InitAnchors[a].href

\* an anchor was annotated, a container was text-marked, and the processed
\* markers were cleared afterwards
C7_Witness ==
  /\ lastOp = "clear"
  /\ anchors[1].annotated /\ ~anchors[1].processed
  /\ anchors[1].wnaName = Name2
  /\ elems["e1"].textProcessed

\* C22: right after clearAllProcessedMarkers(document.body), the clearing a
\* forced re-scan starts with, no anchor carries data-wna-processed and no
\* element carries data-wna-text-processed.
C22_ForcedClearRemovesAllMarkers ==
  lastOp = "clear" =>
    /\ \A a \in AnchorIds : ~anchors[a].processed
    /\ \A e \in ElemIds : ~elems[e].textProcessed

\* the anchor's visible text is an annotation "<name> (first5...last5)"
ShowsAnnotation(a) ==
  /\ HasValidHrefId(a)
  /\ \E name \in {Name1, Name2} : anchors[a].text = ExpectedText(name, HrefId(a))

\* C25: after a completed pass, every anchor whose text is an annotation
\* has a record in the store for the identifier of its href.
C25_NoLabelOfDeletedRecord ==
  lastOp = "pass" => \A a \in AnchorIds : ShowsAnnotation(a) => MapHas(durable, HrefId(a))

(***************************************************************************)
(* Text pipeline: scanTextNodesForAddresses + annotateTextAddresses over   *)
(* the document, against the saved labels                                  *)
(***************************************************************************)

TextLabelIds == {IdX, IdX2, IdY}

TextPass ==
  LET after == annotateTextAddresses(elems, tnodes, durable)
  IN  /\ tnodes' = after
      /\ elems' = markTextParents(elems, tnodes, after)
      /\ lastOp' = "textpass"
      /\ UNCHANGED durable
      /\ OnlyText

TextNext ==
  \/ TextPass
  \/ \E id \in TextLabelIds, input \in Inputs : EditLabel(id, input)
  \/ \E id \in TextLabelIds : RemoveLabel(id)

SpecText == InitDoc /\ [][TextNext]_vars

\* the elided-form matches the scanner hands over for text node t
ElidedFound(t) ==
  LET scan == scanTextNode(elems, tnodes[t])
  IN  { scan[j] : j \in { i \in 1..Len(scan) : Includes(scan[i].address, ELLIPSIS) } }

\* the wrappers a replaced node holds for the match that started at offset from
SpansAt(nd, from) ==
  { nd.frag[j] : j \in { i \in 1..Len(nd.frag) : nd.frag[i].kind = "span" /\ nd.frag[i].from = from } }

\* C9: a text pass never wraps an elided match that two or more known
\* identifiers match by prefix and suffix; the match is left unresolved.
C9_AmbiguousElidedLeftAlone ==
  [][lastOp' = "textpass" =>
       \A t \in TextIds : \A m \in ElidedFound(t) :
         Cardinality(Candidates(durable, m.address)) >= 2 => SpansAt(tnodes'[t], m.start) = {}]_vars

\* C10: a text pass rewrites an elided match that exactly one known identifier
\* matches to "<name> (<first 5>...<last 5>)" of that identifier, in a wrapper
\* whose data-wna-address is the full identifier.
C10_UniqueElidedRewritten ==
  [][lastOp' = "textpass" =>
       \A t \in TextIds : \A m \in ElidedFound(t) :
         \A i \in Candidates(durable, m.address) :
           Candidates(durable, m.address) = {i} =>
             /\ SpansAt(tnodes'[t], m.start) # {}
             /\ \A sp \in SpansAt(tnodes'[t], m.start) :
                  /\ sp.text = ExpectedText(durable[i].v.name, durable[i].k)
                  /\ sp.wnaAddress = durable[i].k
                  /\ sp.wnaAddress # m.address]_vars

\* a text pass has rewritten "Abcde...vwxyz" while only one saved identifier matched it
C10_Witness ==
  /\ lastOp = "textpass"
  /\ MapKeys(durable) = {IdX2, IdY}
  /\ tnodes[1].replaced
  /\ \E sp \in SpansAt(tnodes[1], 0) : sp.wnaAddress = IdX2 /\ sp.text = ExpectedText(Name1, IdX2)
  /\ tnodes[2].replaced

\* the concatenation of the pieces' texts, in document order
RECURSIVE FragText(_)
FragText(frag) == IF frag = << >> THEN << >> ELSE Head(frag).text \o FragText(Tail(frag))

\* the text nodes that hold two full identifiers and nothing the scanner matches besides
TwoFullIds(t) ==
  LET found == findAddressesInText(tnodes[t].text)
  IN  /\ Len(found) = 2
      /\ \A j \in 1..2 : ~Includes(found[j].address, ELLIPSIS)
      /\ found[1].address # found[2].address

\* whether a later text scan would still visit node nd
StillScanned(els, nd) == ~nd.replaced /\ acceptNode(els, nd)

\* C11: a text node with two full identifiers that the scanner visits stays
\* unmarked (a later scan still visits it) after a pass in which neither has a
\* label; and a pass in which exactly one of them has a label wraps that one
\* occurrence and leaves the other identifier as plain text, whenever no
\* earlier pass had resolved anything in that node.
C11_LaterSaveLightsUpOne ==
  [][lastOp' = "textpass" =>
       \A t \in TextIds :
         (TwoFullIds(t) /\ ~tnodes[t].inAnchor /\ ~tnodes[t].replaced
            /\ ~MatchesBlocklist(elems[tnodes[t].parent].tag, elems[tnodes[t].parent].className, FALSE)) =>
           LET found == findAddressesInText(tnodes[t].text)
               labelled == { j \in 1..2 : MapHas(durable, found[j].address) }
           IN  /\ (labelled = {} /\ StillScanned(elems, tnodes[t])) => StillScanned(elems', tnodes'[t])
               /\ \A j \in labelled :
                    labelled = {j} =>
                      /\ tnodes'[t].replaced
                      /\ \E sp \in SpansAt(tnodes'[t], found[j].start) : sp.wnaAddress = found[j].address
                      /\ \A k \in 1..Len(tnodes'[t].frag) :
                           tnodes'[t].frag[k].kind = "span" => tnodes'[t].frag[k].from = found[j].start
                      /\ FragText(SelectSeq(tnodes'[t].frag, LAMBDA pc : pc.kind = "text"))
                           = SubSeq(tnodes[t].text, 1, found[j].start)
                               \o SubSeq(tnodes[t].text, found[j].end + 1, Len(tnodes[t].text))]_vars

\* the containers the scanners must stay out of: pre, code, script, style,
\* noscript, and any element whose class attribute contains json or code
Denylisted(tag, classAttr) ==
  \/ tag \in {"pre", "code", "script", "style", "noscript"}
  \/ Includes(classAttr, Str_json)
  \/ Includes(classAttr, Str_code)

\* element e or one of its ancestors is such a container
RECURSIVE InDenylisted(_)
InDenylisted(e) ==
  /\ e \in DOMAIN elems
  /\ (Denylisted(elems[e].tag, elems[e].className) \/ InDenylisted(elems[e].parent))

\* C15: neither scanner reports a match for an anchor or a text node that is,
\* or lies at any depth inside, a denylisted container.
C15_NothingFromDenylisted ==
  /\ LET links == scanForAddressLinks(elems, anchors)
     IN  \A i \in 1..Len(links) :
           LET a == anchors[links[i].element]
           IN  ~Denylisted("a", ClassAttr(a)) /\ ~InDenylisted(a.parent)
  /\ \A t \in DOMAIN tnodes :
       scanTextNode(elems, tnodes[t]) # << >> => ~InDenylisted(tnodes[t].parent)

\* the characters of text at the 1-based positions from i on that are not in covered
RECURSIVE OutsideFrom(_, _, _)
OutsideFrom(text, covered, i) ==
  IF i > Len(text) THEN << >>
  ELSE (IF i \in covered THEN << >> ELSE << text[i] >>) \o OutsideFrom(text, covered, i + 1)

\* the 1-based positions the matches that resolve under mappings span
ResolvedPositions(found, mappings) ==
  UNION { (found[j].start + 1)..found[j].end :
            j \in { i \in 1..Len(found) : ResolveMatch(mappings, found[i]).found } }

\* the matches of a list that overlap another match of it
Overlapping(found) ==
  { i \in 1..Len(found) :
      \E j \in 1..Len(found) :
        j # i /\ found[i].start < found[j].end /\ found[j].start < found[i].end }

\* C16: when a pass rewrites a text node, the plain text of the result is the
\* original text without the characters inside the resolved matches: every
\* other character once, unchanged and in order.
C16_OutsideTextKept ==
  [][lastOp' = "textpass" =>
       \A t \in TextIds :
         (~tnodes[t].replaced /\ tnodes'[t].replaced) =>
           FragText(SelectSeq(tnodes'[t].frag, LAMBDA pc : pc.kind = "text"))
             = OutsideFrom(tnodes[t].text,
                           ResolvedPositions(findAddressesInText(tnodes[t].text), durable), 1)]_vars

\* a rewritten node with text before and after two overlapping matches, a
\* full and an elided form, both resolved
C16_Witness ==
  /\ lastOp = "textpass"
  /\ tnodes[7].replaced
  /\ Cardinality({ k \in 1..Len(tnodes[7].frag) : tnodes[7].frag[k].kind = "span" }) = 2
  /\ Overlapping(findAddressesInText(tnodes[7].text)) # {}
  /\ tnodes[8].replaced
  /\ tnodes[7].frag[1].kind = "text"

(***************************************************************************)
(* Content script: main(), the DOM observer with its debounce timer,       *)
(* scanAndAnnotate and saveMapping, with the background's message handlers *)
(* answering from durable storage                                          *)
(***************************************************************************)

HasFreePass == \E p \in PassIds : passes[p].status = "free"
LowestFree == CHOOSE p \in PassIds : passes[p].status = "free" /\ \A q \in PassIds : passes[q].status = "free" => p <= q

\* an observer attached as soon as main() runs its initial pass
ObserverSees_AttachedEarly(added) ==
  IF pcMain \in {"initial", "observing"} /\ added
  THEN /\ timer' = RestartTimer(timer)
       /\ sinceMutation' = 0
       /\ burst' = IF firedSince > 0 \/ burst = 0 THEN 1 ELSE Min2(burst + 1, MaxBurst)
       /\ firedSince' = 0
  ELSE UNCHANGED <<timer, sinceMutation, burst, firedSince>>

\* the MutationObserver callback, run when a step added nodes (or did not)
ObserverSees(added) ==
  IF pcMain = "observing" /\ added
  THEN /\ timer' = RestartTimer(timer)
       /\ sinceMutation' = 0
       /\ burst' = IF firedSince > 0 \/ burst = 0 THEN 1 ELSE Min2(burst + 1, MaxBurst)
       /\ firedSince' = 0
  ELSE UNCHANGED <<timer, sinceMutation, burst, firedSince>>

\* waitForPageLoad, first half: document.readyState is "complete" or the load
\* event fires; main() goes on to wait for requestIdleCallback / setTimeout
DocumentComplete ==
  /\ pcMain = "loading"
  /\ pcMain' = "settling"
  /\ UNCHANGED <<durable, anchors, passes, save, saves, timer, sinceMutation,
                 burst, firedSince, forced>>
  /\ OnlyContent

\* the idle callback (or the timeout) runs: waitForPageLoad returns and main()
\* calls the initial scanAndAnnotate(), which runs up to its await
PageLoaded ==
  /\ pcMain = "settling"
  /\ HasFreePass
  /\ pcMain' = "initial"
  /\ passes' = [passes EXCEPT ![LowestFree] = UnforcedPass("initial", anchors)]
  /\ UNCHANGED <<durable, anchors, save, saves, timer, sinceMutation,
                 burst, firedSince, forced>>
  /\ OnlyContent

\* the background's GET_ALL_MAPPINGS handler answers with the stored labels
BackgroundGetAll(p) ==
  /\ passes[p].status = "sent"
  /\ ~invalidated
  /\ passes' = [passes EXCEPT ![p].status = "replied", ![p].ok = TRUE, ![p].data = durable]
  /\ UNCHANGED <<durable, anchors, pcMain, save, saves, timer, sinceMutation,
                 burst, firedSince, forced>>
  /\ OnlyContent

\* the handler's catch branch: { success: false }
BackgroundGetAllFails(p) ==
  /\ passes[p].status = "sent"
  /\ passes' = [passes EXCEPT ![p].status = "replied", ![p].ok = FALSE]
  /\ UNCHANGED <<durable, anchors, pcMain, save, saves, timer, sinceMutation,
                 burst, firedSince, forced>>
  /\ OnlyContent

\* a pass that, when its fetch failed, clears the processed markers on its way out
PassResume_ClearsOnFailure(p) ==
  /\ passes[p].status = "replied"
  /\ LET pass == passes[p]
         links == scanForAddressLinks(elems, anchors)
         annotates == pass.ok /\ Len(links) > 0 /\ MapSize(pass.data) > 0
         written == IF annotates THEN WrittenBy(links, pass.data) ELSE {}
     IN  /\ anchors' = IF annotates THEN annotateAddressLinks(anchors, links, pass.data)
                       ELSE IF pass.ok THEN anchors ELSE clearAllProcessedMarkers(anchors)
         /\ ObserverSees(written # {})
         /\ pcMain' = IF pass.kind = "initial" THEN "observing" ELSE pcMain
         /\ forced' = IF pass.kind = "forced" /\ pass.gen = saves /\ forced = "running"
                      THEN (IF pass.ok THEN "done" ELSE "failed") ELSE forced
  /\ passes' = [passes EXCEPT ![p] = FreePass]
  /\ UNCHANGED <<durable, save, saves>>
  /\ OnlyContent

\* scanAndAnnotate after its await: the early return, or scan and annotate
PassResume(p) ==
  /\ passes[p].status = "replied"
  /\ LET pass == passes[p]
         links == scanForAddressLinks(elems, anchors)
         annotates == pass.ok /\ Len(links) > 0 /\ MapSize(pass.data) > 0
         written == IF annotates THEN WrittenBy(links, pass.data) ELSE {}
     IN  /\ anchors' = IF annotates THEN annotateAddressLinks(anchors, links, pass.data) ELSE anchors
         /\ ObserverSees(written # {})
         /\ pcMain' = IF pass.kind = "initial" THEN "observing" ELSE pcMain
         /\ forced' = IF pass.kind = "forced" /\ pass.gen = saves /\ forced = "running"
                      THEN (IF pass.ok THEN "done" ELSE "failed") ELSE forced
  /\ passes' = [passes EXCEPT ![p] = FreePass]
  /\ UNCHANGED <<durable, save, saves>>
  /\ OnlyContent

\* the timer's callback: scanAndAnnotate() up to its await
TimerFire ==
  /\ timer = 0
  /\ HasFreePass
  /\ timer' = NoTimer
  /\ firedSince' = firedSince + 1
  /\ passes' = [passes EXCEPT ![LowestFree] = UnforcedPass("timer", anchors)]
  /\ UNCHANGED <<durable, anchors, pcMain, save, saves, sinceMutation, burst, forced>>
  /\ OnlyContent

\* time passes
Tick ==
  /\ timer > 0 \/ sinceMutation < DebounceMs
  /\ timer' = IF timer = NoTimer THEN NoTimer ELSE Max2(timer - TickMs, 0)
  /\ sinceMutation' = Min2(sinceMutation + TickMs, DebounceMs)
  /\ UNCHANGED <<durable, anchors, pcMain, passes, save, saves, burst,
                 firedSince, forced>>
  /\ OnlyContent

\* the host page (or the modal's container) changes the children under
\* document.body; the callback returns at hasNewNodes unless nodes were added
HostMutation(added) ==
  /\ ObserverSees(added)
  /\ UNCHANGED <<durable, anchors, pcMain, passes, save, saves, forced>>
  /\ OnlyContent

\* the modal's onSave: saveMapping up to its await. The modal keeps its Save
\* button disabled (isSaving) until the previous onSave, forced re-scan
\* included, has settled.
UserSave(address, input) ==
  /\ save.status = "idle"
  /\ \A p \in PassIds : passes[p].kind # "forced"
  /\ saves < MaxSaves
  /\ save' = [status |-> "sent", address |-> address, input |-> input]
  /\ saves' = saves + 1
  /\ forced' = "none"
  /\ UNCHANGED <<durable, anchors, pcMain, passes, timer, sinceMutation,
                 burst, firedSince>>
  /\ OnlyContent

\* the background's SAVE_MAPPING handler stores the label
BackgroundSave ==
  /\ save.status = "sent"
  /\ ~invalidated
  /\ durable' = MapSet(durable, save.address, Mapping(save.input, clock, clock))
  /\ save' = [save EXCEPT !.status = "ok"]
  /\ UNCHANGED <<anchors, pcMain, passes, saves, timer, sinceMutation,
                 burst, firedSince, forced>>
  /\ OnlyContent

\* the handler's catch branch: { success: false }
BackgroundSaveFails ==
  /\ save.status = "sent"
  /\ save' = [save EXCEPT !.status = "failed"]
  /\ UNCHANGED <<durable, anchors, pcMain, passes, saves, timer, sinceMutation,
                 burst, firedSince, forced>>
  /\ OnlyContent

\* saveMapping after its await, on success: scanAndAnnotate(true) up to its await
SaveResume ==
  /\ save.status = "ok"
  /\ HasFreePass
  /\ anchors' = clearAllProcessedMarkers(anchors)
  /\ passes' = [passes EXCEPT ![LowestFree] = SentPass("forced", saves)]
  /\ save' = NoSave
  /\ forced' = IF pcMain = "observing" THEN "running" ELSE "early"
  /\ UNCHANGED <<durable, pcMain, saves, timer, sinceMutation, burst, firedSince>>
  /\ OnlyContent

\* saveMapping after its await, on failure: it throws
SaveRejected ==
  /\ save.status = "failed"
  /\ save' = NoSave
  /\ forced' = "failed"
  /\ UNCHANGED <<durable, anchors, pcMain, passes, saves, timer, sinceMutation,
                 burst, firedSince>>
  /\ OnlyContent

Next ==
  \/ DocumentComplete
  \/ PageLoaded
  \/ \E p \in PassIds : BackgroundGetAll(p)
  \/ \E p \in PassIds : BackgroundGetAllFails(p)
  \/ \E p \in PassIds : PassResume(p)
  \/ TimerFire
  \/ Tick
  \/ \E added \in BOOLEAN : HostMutation(added)
  \/ \E address \in SaveIds, input \in Inputs : UserSave(address, input)
  \/ BackgroundSave
  \/ BackgroundSaveFails
  \/ SaveResume
  \/ SaveRejected

Spec == Init /\ [][Next]_vars

\* the extension context is invalidated (the extension is reloaded or
\* updated) while the page stays: messages to the background fail from now
\* on.  main() takes no context argument and registers nothing for this
\* event; the observer and the timer are the page's own and stay as they are.
ContextInvalidated ==
  /\ pcMain = "observing"
  /\ ~invalidated
  /\ invalidated' = TRUE
  /\ UNCHANGED <<durable, storeVars, domVars, textVars, schedVars, portVars>>

\* the content script on a page that outlives the extension context
CtxNext ==
  \/ Next
  \/ ContextInvalidated

SpecCtx == Init /\ [][CtxNext]_vars

(***************************************************************************)
(* Claims about the content script                                         *)
(***************************************************************************)

InFlight == { p \in PassIds : passes[p].status # "free" }

\* C2: at most one scanAndAnnotate invocation is between its start and its
\* end (its wait for the labels included) at any time.
C2_OnePassAtATime == Cardinality(InFlight) <= 1

\* C1: once the forced re-scan that follows the latest successful save (made
\* after the initial scan, so that only debounced passes can be pending or
\* waiting beside it) has fetched the labels and finished, every anchor outside the denylisted
\* containers whose href carries the saved identifier shows
\* "<saved name> (<first 5>...<last 5>)", whatever other pass was pending or
\* waiting for its labels meanwhile.
C1_ForcedRescanShowsSavedName ==
  forced = "done" =>
    \A a \in DOMAIN anchors :
      ( /\ HasValidHrefId(a) /\ HrefId(a) \in SaveIds
        /\ MapHas(durable, HrefId(a))
        /\ ~shouldSkipElement(elems, anchors[a]) )
      => anchors[a].text = ExpectedText(MapGet(durable, HrefId(a)).name, HrefId(a))

\* a step in which the timer's callback starts a scan pass
TimerPassStarts ==
  \E p \in PassIds :
    passes[p].status = "free" /\ passes'[p].status = "sent" /\ passes'[p].kind = "timer"

\* C8: while a timer is pending it runs from the latest added-node
\* notification (each one restarts it); the timer's pass starts only after a
\* full window without such a notification; a pending timer ends only by
\* starting its pass; and no second timer pass starts before a new notification.
C8_Debounce ==
  /\ [](timer # NoTimer => timer + sinceMutation = DebounceMs)
  /\ [](firedSince <= 1)
  /\ [][TimerPassStarts => sinceMutation = DebounceMs]_vars
  /\ [][(timer # NoTimer /\ timer' = NoTimer) => TimerPassStarts]_vars

\* a burst of two or more notifications was followed by its one pass, a full
\* window after the last of them
C8_Witness ==
  /\ burst >= 2
  /\ firedSince = 1
  /\ timer = NoTimer
  /\ sinceMutation = DebounceMs
  /\ \E p \in PassIds : passes[p].kind = "timer" /\ passes[p].status = "sent"

\* C17: whenever no scanAndAnnotate invocation is in progress, every anchor
\* that carries data-wna-name also carries data-wna-processed.  (A wrapper span
\* is created with data-wna-text-processed on it and nothing removes it.)
C17_AnnotatedIsMarked ==
  InFlight = {} =>
    \A a \in DOMAIN anchors : anchors[a].annotated => anchors[a].processed

\* pass p ends in this step after a failed / an answered fetch
FailedResume(p) == passes[p].status = "replied" /\ ~passes[p].ok /\ passes'[p].status = "free"
AnsweredResume(p) == passes[p].status = "replied" /\ passes[p].ok /\ passes'[p].status = "free"

PassStarts == \E p \in PassIds : passes[p].status = "free" /\ passes'[p].status # "free"

\* C19: once the page's extension context is torn down no debounce timer is
\* pending, the observer schedules none, and no scan pass starts.
C19_NoScanAfterDisposal ==
  [][/\ invalidated' => timer' = NoTimer
     /\ invalidated => ~PassStarts]_vars

\* C26: when a pass whose fetch succeeded ends, every anchor its scan
\* returned is marked processed, and the returned anchors whose identifier has
\* no label in the fetched set keep their text.
C26_ReturnedAnchorsMarked ==
  [][\A p \in PassIds :
       AnsweredResume(p) =>
         LET links == scanForAddressLinks(elems, anchors)
         IN  \A i \in 1..Len(links) :
               /\ anchors'[links[i].element].processed
               /\ ~MapHas(passes[p].data, links[i].address) =>
                    anchors'[links[i].element].text = anchors[links[i].element].text]_vars

\* the matches the scan hands over for node t, and those of them that resolve
ScannedAt(t) == scanTextNode(elems, tnodes[t])
ResolvedAt(t) == { j \in 1..Len(ScannedAt(t)) : ResolveMatch(durable, ScannedAt(t)[j]).found }

C30_TextMarkerDoesNotHideAnchors ==
  \A a \in AnchorIds :
    (/\ ~anchors[a].processed
     /\ HasValidHrefId(a)
     /\ ~Denylisted("a", ClassAttr(anchors[a]))
     /\ ~InDenylisted(anchors[a].parent)) => LinkOf(elems, anchors, a) # << >>

(***************************************************************************)
(* The text pipeline with the forced re-scan a label write triggers:       *)
(* clearAllProcessedMarkers(document.body), then the scan and the          *)
(* annotation of the text nodes against the saved labels                   *)
(***************************************************************************)

ForcedTextPass ==
  LET after == annotateTextAddresses(elems, tnodes, durable)
  IN  /\ anchors' = clearAllProcessedMarkers(anchors)
      /\ tnodes' = after
      /\ elems' = markTextParents(elems, tnodes, after)
      /\ lastOp' = "forcedtext"
      /\ UNCHANGED <<durable, lastWritten>>
      /\ UNCHANGED <<storeVars, batch, schedVars, portVars, ctxVars>>

TextForcedNext ==
  \/ TextPass
  \/ ForcedTextPass
  \/ \E id \in TextLabelIds, input \in Inputs : EditLabel(id, input)
  \/ \E id \in TextLabelIds : RemoveLabel(id)

SpecTextForced == InitDoc /\ [][TextForcedNext]_vars

\* the plain texts the document holds at text node nd: the node's text, or
\* the text nodes its replacement left between the wrapper spans
PlainTexts(nd) ==
  IF nd.replaced THEN { nd.frag[k].text : k \in { j \in 1..Len(nd.frag) : nd.frag[j].kind = "text" } }
  ELSE { nd.text }

\* the occurrences in a text that resolve against the labels
ResolvableIn(text, mappings) ==
  LET found == findAddressesInText(text)
  IN  { j \in 1..Len(found) : ResolveMatch(mappings, found[j]).found }

\* C28: after a forced re-scan no plain text outside anchors and denylisted
\* containers still holds an occurrence that resolves against the saved
\* labels: every such occurrence was annotated, whatever an earlier pass had
\* annotated in the same element.
C28_UnresolvedRetried ==
  lastOp = "forcedtext" =>
    \A t \in TextIds :
      (~tnodes[t].inAnchor
         /\ ~Denylisted(elems[tnodes[t].parent].tag, elems[tnodes[t].parent].className)) =>
        \A text \in PlainTexts(tnodes[t]) : ResolvableIn(text, durable) = {}

\* C32: when the forced re-scan of a save ends after a successful fetch,
\* every anchor that was annotated before and whose identifier has a label
\* shows "<name> (first5...last5)" with the saved name and the identifier of
\* its href, and carries that name in data-wna-name.
C32_RenameShownAfterForcedPass ==
  [][\A p \in PassIds :
       (AnsweredResume(p) /\ passes[p].kind = "forced") =>
         \A a \in DOMAIN anchors :
           (anchors[a].annotated /\ HasValidHrefId(a) /\ MapHas(durable, HrefId(a))) =>
             /\ anchors'[a].text = ExpectedText(MapGet(durable, HrefId(a)).name, HrefId(a))
             /\ anchors'[a].wnaName = MapGet(durable, HrefId(a)).name]_vars

\* C33: when a pass that was started without clearing (by the initial load
\* or by the debounce timer) ends, every anchor that carried
\* data-wna-processed when that pass started is exactly as it was before the
\* pass's own step: same text, same attributes, same marker.
C33_UnforcedPassLeavesMarkedAlone ==
  [][\A p \in PassIds :
       (passes[p].status = "replied" /\ passes'[p].status = "free" /\ passes[p].kind # "forced") =>
         \A a \in passes[p].marked : anchors'[a] = anchors[a]]_vars

\* main()'s position moves along load, idle wait, initial pass, observing
StartupOrder ==
  { <<"loading", "settling">>, <<"settling", "initial">>, <<"initial", "observing">> }

\* C35: main() goes from the loaded document to the idle wait, from there to
\* the initial pass and only when that pass has ended to observing; the
\* initial pass is in progress exactly while main() is at it, and a debounce
\* timer or a pass started by it exists only once main() is observing.
C35_StartupOrder ==
  [][/\ pcMain' # pcMain => <<pcMain, pcMain'>> \in StartupOrder
     /\ (pcMain' = "initial") <=> (\E p \in PassIds : passes'[p].kind = "initial")
     /\ (timer' # NoTimer \/ \E p \in PassIds : passes'[p].kind = "timer") => pcMain' = "observing"]_vars

\* a pass started by the debounce timer is waiting for its labels
C35_Witness ==
  /\ pcMain = "observing"
  /\ \E p \in PassIds : passes[p].kind = "timer" /\ passes[p].status = "sent"

(***************************************************************************)
(* The content script on a page whose host eventually stops changing the   *)
(* document: time passes, timer callbacks run, every message is answered   *)
(* or rejected and every resumed call runs on, so while one of these steps *)
(* is possible one of them is taken                                        *)
(***************************************************************************)

\* a step of the host page
HostStep == \E added \in BOOLEAN : HostMutation(added)

\* a message to the background settles, one way or the other
FetchSettles == \E p \in PassIds : BackgroundGetAll(p) \/ BackgroundGetAllFails(p)
SaveSettles == BackgroundSave \/ BackgroundSaveFails

\* a step the extension or the browser takes by itself, the resumption of
\* a pass apart
ProgramStep ==
  \/ DocumentComplete
  \/ PageLoaded
  \/ Tick
  \/ TimerFire
  \/ FetchSettles
  \/ SaveSettles
  \/ SaveResume
  \/ SaveRejected

\* a pass resumes after its await as soon as its answer is there: weak
\* fairness of PassResume, with ENABLED spelled out as the action's guard
PassResumes == \E p \in PassIds : PassResume(p)
PassResumeEnabled == \E p \in PassIds : passes[p].status = "replied"
PassResumeFair == []<>(~PassResumeEnabled) \/ []<><<PassResumes>>_vars

SpecQuiet ==
  /\ Init /\ [][Next]_vars
  /\ WF_vars(ProgramStep)
  /\ PassResumeFair
  /\ <>[][~HostStep]_vars

\* no pass in progress and no debounce timer pending
SchedulerIdle == timer = NoTimer /\ InFlight = {}

\* C27: once the host page has stopped mutating, the scheduler eventually
\* is idle, with no pending debounce timer, and stays idle from then on.
C27_EventuallyIdle == <>[]SchedulerIdle

\* idle again after a forced re-scan wrote its annotations while the
\* observer was watching, and the debounce timer fired after the last mutation
C27_Witness ==
  /\ SchedulerIdle
  /\ pcMain = "observing"
  /\ forced = "done"
  /\ firedSince > 0
  /\ \E a \in DOMAIN anchors : anchors[a].annotated /\ anchors[a].processed

(***************************************************************************)
(* The text pipeline on a page whose link wraps its text in an element:    *)
(* <a href="/account/IdX"><span>Abcde...vwxyz</span></a>                   *)
(***************************************************************************)

\* the name the span's parent field gives the anchor it lies in
LinkParent == "a1"

NestedElems ==
  [e \in ElemIds \cup {"e5"} |->
     IF e = "e5"
     THEN [tag |-> "span", className |-> << >>, parent |-> LinkParent, textProcessed |-> FALSE]
     ELSE InitElems[e]]

NestedTexts ==
  [t \in 1..9 |->
     IF t = 9 THEN TextNode("e5", Take(IdX, 5) \o ELLIPSIS \o TakeLast(IdX, 5), FALSE)
     ELSE InitTexts[t]]

InitNested ==
  /\ durable = EmptyMap
  /\ cache = [i \in Instances |-> CacheNull]
  /\ ops = [s \in Slots |-> IdleOp]
  /\ clock = 0
  /\ lastLoaded = [i \in Instances |-> EmptyMap]
  /\ started = 0
  /\ anchors = InitAnchors
  /\ elems = NestedElems
  /\ lastWritten = {}
  /\ lastOp = "none"
  /\ tnodes = NestedTexts
  /\ batch = NoBatch
  /\ pcMain = "loading"
  /\ passes = [p \in PassIds |-> FreePass]
  /\ save = NoSave
  /\ saves = 0
  /\ timer = NoTimer
  /\ sinceMutation = DebounceMs
  /\ burst = 0
  /\ firedSince = 0
  /\ forced = "none"
  /\ port = NoPort
  /\ probe = NoProbe
  /\ invalidated = FALSE
  /\ held = NoHeld

SpecTextNested == InitNested /\ [][TextNext]_vars

\* element e is, or lies at some depth inside, an anchor
RECURSIVE InsideLink(_)
InsideLink(e) ==
  \/ e = LinkParent
  \/ (e \in DOMAIN elems /\ InsideLink(elems[e].parent))

\* C31: a text node with an anchor among its ancestors, at any depth, is
\* never handed to the text annotator: it is never replaced by wrapper spans.
C31_NoTextInsideLinkWrapped ==
  \A t \in DOMAIN tnodes :
    (tnodes[t].inAnchor \/ InsideLink(tnodes[t].parent)) => ~tnodes[t].replaced


(***************************************************************************)
(* A caller that scans, keeps the matches, and annotates them later, while *)
(* the host page removes nodes in between                                  *)
(***************************************************************************)

BatchLabelIds == {IdX, IdY}
RemovableTexts == {1, 3, 6}
RemovableAnchors == {1, 2}

\* scanTextNodesForAddresses(document.body): the matches, kept by the caller
ScanTextBatch ==
  /\ batch.status = "none"
  /\ batch' = [status |-> "scanned", kind |-> "text",
               texts |-> [t \in DOMAIN tnodes |-> scanTextNode(elems, tnodes[t])],
               links |-> << >>]
  /\ UNCHANGED <<durable, storeVars, domVars, tnodes, schedVars, portVars, ctxVars>>

\* a scanner that marks every anchor it has looked at as processed
anchorsAfterScan_MarksWalked(els, ancs) ==
  [a \in DOMAIN ancs |->
     IF shouldSkipElement(els, ancs[a]) THEN ancs[a] ELSE markAsProcessed(ancs[a])]

\* the anchors after scanForAddressLinks has walked them: its loop reads
\* href, attributes and textContent and sets nothing
anchorsAfterScan(els, ancs) == ancs

\* scanForAddressLinks(document.body): the matches, kept by the caller
ScanLinkBatch ==
  /\ batch.status = "none"
  /\ batch' = [status |-> "scanned", kind |-> "link",
               texts |-> [t \in DOMAIN tnodes |-> << >>],
               links |-> scanForAddressLinks(elems, anchors)]
  /\ anchors' = anchorsAfterScan(elems, anchors)
  /\ UNCHANGED <<durable, storeVars, elems, lastWritten, lastOp, tnodes, schedVars,
                 portVars, ctxVars>>

\* the host page takes a text node out of the document
HostRemovesText(t) ==
  /\ batch.status = "scanned"
  /\ tnodes[t].parent # NoParent
  /\ tnodes' = [tnodes EXCEPT ![t].parent = NoParent]
  /\ UNCHANGED <<durable, storeVars, domVars, batch, schedVars, portVars, ctxVars>>

\* the host page takes an anchor out of the document
HostRemovesAnchor(a) ==
  /\ batch.status = "scanned"
  /\ anchors[a].parent # NoParent
  /\ anchors' = [anchors EXCEPT ![a].parent = NoParent]
  /\ UNCHANGED <<durable, storeVars, elems, lastWritten, lastOp, textVars, schedVars,
                 portVars, ctxVars>>

\* annotateTextAddresses(matches, mappings) on the matches kept
AnnotateTextBatch ==
  /\ batch.status = "scanned"
  /\ batch.kind = "text"
  /\ LET out == annotateTextBatch(tnodes, batch.texts, durable)
     IN  /\ tnodes' = out.nodes
         /\ elems' = markTextParents(elems, tnodes, out.nodes)
         /\ batch' = [batch EXCEPT !.status = IF out.threw THEN "threw" ELSE "done"]
  /\ lastOp' = "textbatch"
  /\ UNCHANGED <<durable, storeVars, anchors, lastWritten, schedVars, portVars, ctxVars>>

\* annotateAddressLinks(links, mappings) on the matches kept
AnnotateLinkBatch ==
  /\ batch.status = "scanned"
  /\ batch.kind = "link"
  /\ anchors' = annotateAddressLinks(anchors, batch.links, durable)
  /\ lastWritten' = WrittenBy(batch.links, durable)
  /\ batch' = [batch EXCEPT !.status = "done"]
  /\ lastOp' = "linkbatch"
  /\ UNCHANGED <<durable, storeVars, elems, tnodes, schedVars, portVars, ctxVars>>

\* a label is saved before the scan
BatchEdit(id, input) ==
  /\ batch.status = "none"
  /\ EditLabel(id, input)

\* before the scan: an earlier scan-and-annotate call, and a clearing of the markers
BatchLinkPass ==
  /\ batch.status = "none"
  /\ LinkPass

BatchClear ==
  /\ batch.status = "none"
  /\ ClearMarkers

BatchNext ==
  \/ BatchLinkPass
  \/ BatchClear
  \/ ScanTextBatch
  \/ ScanLinkBatch
  \/ \E t \in RemovableTexts : HostRemovesText(t)
  \/ \E a \in RemovableAnchors : HostRemovesAnchor(a)
  \/ AnnotateTextBatch
  \/ AnnotateLinkBatch
  \/ \E id \in BatchLabelIds, input \in Inputs : BatchEdit(id, input)

SpecBatch == InitDoc /\ [][BatchNext]_vars

\* the kept matches cut down to those of text node t
OnlyNode(found, t) == [u \in DOMAIN found |-> IF u = t THEN found[u] ELSE << >>]

StorageWriteFails(s) ==
  /\ ops[s].pc = "writing"
  /\ ops[s].kind \in {"save", "delete"}
  /\ ops' = [ops EXCEPT ![s].pc = "rejected"]
  /\ UNCHANGED <<durable, cache, clock, lastLoaded, started>>
  /\ OnlyStore

\* a failure path that leaves the Map the call had changed in the cache
CacheAfterFailedWrite_KeepsChanged(c, op) == setMappings(c, op.inst, op.data)

\* the await of storage.setItem throws: cache.invalidateMappings() is not reached
CacheAfterFailedWrite(c, op) == c

\* save or delete resumes with the rejection and throws it to its caller; the
\* freed slot keeps, for the claims only, the identifier and the Map of the call
FailedWriteResume(s) ==
  /\ ops[s].pc = "rejected"
  /\ cache' = CacheAfterFailedWrite(cache, ops[s])
  /\ ops' = [ops EXCEPT ![s] = [IdleOp EXCEPT !.pc = "threw", !.address = ops[s].address,
                                              !.data = ops[s].data]]
  /\ UNCHANGED <<durable, clock, lastLoaded, started>>
  /\ OnlyStore

FailNext ==
  \/ \E s \in Slots : StartGetAll(s, "bg")
  \/ \E s \in Slots, id \in StoreIds, input \in Inputs : StartSave(s, "bg", id, input)
  \/ \E s \in Slots, id \in StoreIds : StartDelete(s, "bg", id)
  \/ \E s \in Slots : SaveSecondGetAll(s)
  \/ \E s \in Slots : StorageRead(s)
  \/ \E s \in Slots : LoadResume(s)
  \/ \E s \in Slots : StorageWrite(s)
  \/ \E s \in Slots : WriteResume(s)
  \/ \E s \in Slots : StorageWriteFails(s)
  \/ \E s \in Slots : FailedWriteResume(s)

SpecFail == InitDoc /\ [][FailNext]_vars

\* C36: a rejected write of save or delete changes nothing in durable
\* storage, the call ends by throwing, and what get returns for the
\* identifier is not changed by the failure: a record that failed to be saved
\* and was not shown before is not shown after, and a record that failed to
\* be deleted is still shown.
C36_FailedWriteLeavesNoTrace ==
  [][\A s \in Slots :
       /\ (ops[s].pc = "writing" /\ ops'[s].pc = "rejected") => durable' = durable
       /\ (ops[s].pc = "rejected" /\ ops'[s].pc # "rejected") =>
            /\ ops'[s].pc = "threw"
            /\ durable' = durable
            /\ ops[s].kind = "save" =>
                 LET rec == << MapGet(ops[s].data, ops[s].address) >>
                 IN  WouldGet(ops[s].address) # rec => WouldGet(ops[s].address)' # rec
            /\ ops[s].kind = "delete" =>
                 (WouldGet(ops[s].address) # << >> =>
                    WouldGet(ops[s].address)' = WouldGet(ops[s].address))]_vars

\* a save has thrown: its record is in the Map the call had changed, and is
\* neither in durable storage nor in what a get answers from the cache
C36_Witness ==
  \E s \in Slots :
    /\ ops[s].pc = "threw"
    /\ MapHas(ops[s].data, ops[s].address)
    /\ cache["bg"].present
    /\ WouldGet(ops[s].address) # << MapGet(ops[s].data, ops[s].address) >>
    /\ ~MapHas(durable, ops[s].address)

(***************************************************************************)
(* The two readers of a link URL: the context-menu handler of the          *)
(* background worker and the link scanner                                  *)
(***************************************************************************)

\* /\/(account|address|token)\/([A-Za-z0-9]{32,44})/ tried at 1-based position i:
\* nothing has to follow the run, so a run of 32 characters or more matches
MenuMatchAt(url, i) ==
  \E p \in PathShapes :
    /\ MatchesAt(url, p, i)
    /\ RunLen(url, AlnumSet, i + Len(p)) >= MIN_ADDRESS_LEN

\* handleContextMenuClick, the link branch: group 2 of the leftmost match, the
\* greedy run cut at 44 characters, kept when isValidSolanaAddress accepts it
linkUrlAddress(url) ==
  IF url = << >> THEN NoMatch
  ELSE LET hits == { i \in 1..Len(url) : MenuMatchAt(url, i) }
       IN  IF hits = {} THEN NoMatch
           ELSE LET i == CHOOSE x \in hits : \A y \in hits : x <= y
                    p == CHOOSE q \in PathShapes : MatchesAt(url, q, i)
                    j == i + Len(p)
                    n == Min2(RunLen(url, AlnumSet, j), MAX_ADDRESS_LEN)
                    group == SubSeq(url, j, j + n - 1)
                IN  IF isValidSolanaAddress(group) THEN group ELSE NoMatch

\* what scanForAddressLinks keeps of an href: extractAddressFromHref, then
\* isValidSolanaAddress
scannerAddress(href) ==
  LET address == extractAddressFromHref(href)
  IN  IF address # NoMatch /\ isValidSolanaAddress(address) THEN address ELSE NoMatch

UrlTails == {<< >>, <<"?","c","=","d">>, <<"/","t","x","s">>, <<"#","a">>, <<"-","x">>}

\* link URLs: a path shape, a run of base58 characters (or one with a
\* character outside the alphabet), and what follows it
LinkUrls ==
  { Origin \o p \o Base58String(n) \o tail :
      p \in PathShapes, n \in SampleLens, tail \in UrlTails }
    \cup { Origin \o p \o IdBad0 \o tail : p \in PathShapes, tail \in UrlTails }
    \cup { Origin \o Str_tx \o Base58String(MAX_ADDRESS_LEN) }

InitUrl ==
  /\ durable = EmptyMap
  /\ cache = [i \in Instances |-> CacheNull]
  /\ ops = [s \in Slots |-> IdleOp]
  /\ clock = 0
  /\ lastLoaded = [i \in Instances |-> EmptyMap]
  /\ started = 0
  /\ anchors = InitAnchors
  /\ elems = InitElems
  /\ lastWritten = {}
  /\ lastOp = "none"
  /\ tnodes = InitTexts
  /\ batch = NoBatch
  /\ pcMain = "loading"
  /\ passes = [p \in PassIds |-> FreePass]
  /\ save = NoSave
  /\ saves = 0
  /\ timer = NoTimer
  /\ sinceMutation = DebounceMs
  /\ burst = 0
  /\ firedSince = 0
  /\ forced = "none"
  /\ port = NoPort
  /\ probe \in { [NoProbe EXCEPT !.arg = u] : u \in LinkUrls }
  /\ invalidated = FALSE
  /\ held = NoHeld

\* both readers are given the URL
ExtractFromUrl ==
  /\ ~probe.done
  /\ probe' = [probe EXCEPT !.done = TRUE,
                            !.value = [menu |-> linkUrlAddress(probe.arg),
                                       scanner |-> scannerAddress(probe.arg)]]
  /\ UNCHANGED <<durable, storeVars, domVars, textVars, schedVars, port, held, ctxVars>>

UrlNext == ExtractFromUrl

SpecUrl == InitUrl /\ [][UrlNext]_vars

\* the run of alphanumeric characters after the first path shape of the URL
SegmentLen(url) ==
  LET at == { i \in 1..Len(url) : \E p \in PathShapes : MatchesAt(url, p, i) }
  IN  IF at = {} THEN 0
      ELSE LET i == CHOOSE x \in at : \A y \in at : x <= y
               p == CHOOSE q \in PathShapes : MatchesAt(url, q, i)
           IN  RunLen(url, AlnumSet, i + Len(p))

\* C37: for every link URL the context-menu handler and the link scanner
\* extract the same identifier, and both extract nothing when the path
\* segment after /account/, /address/ or /token/ has more than 44 characters.
C37_SameIdentifierFromUrl ==
  probe.done =>
    /\ probe.value.menu = probe.value.scanner
    /\ SegmentLen(probe.arg) > MAX_ADDRESS_LEN =>
         (probe.value.menu = NoMatch /\ probe.value.scanner = NoMatch)

Tag3 == <<"n","f","t">>
Color2 == "#00AA88"

Input3 == [name |-> Name1, tags |-> <<Tag1>>, color |-> Undefined]
Input4 == [name |-> Name2, tags |-> <<Tag2, Tag3>>, color |-> Color2]
FilterInputs == {Input1, Input2, Input3, Input4}
FilterIds == {IdX, IdX2, IdY}

\* options.tags: not given, empty, or a list of tags
NoTags == [given |-> FALSE, list |-> << >>]
Tags(list) == [given |-> TRUE, list |-> list]
TagChoices == {NoTags, Tags(<< >>), Tags(<<Tag1>>), Tags(<<Tag3, Tag1>>), Tags(<<Tag2>>), Tags(<<Name1>>)}
\* options.color: not given or a colour
ColorChoices == {Undefined, Color1, Color2}

\* options.tags && options.tags.length > 0
TagsGiven(options) == options.tags.given /\ Len(options.tags.list) > 0

\* a tag test that asks for every given tag
hasMatchingTag_Every(options, mapping) ==
  \A i \in 1..Len(options.tags.list) :
    \E j \in 1..Len(mapping.tags) : mapping.tags[j] = options.tags.list[i]

\* options.tags.some(tag => mapping.tags?.includes(tag))
hasMatchingTag(options, mapping) ==
  \E i \in 1..Len(options.tags.list) :
    \E j \in 1..Len(mapping.tags) : mapping.tags[j] = options.tags.list[i]

\* the loop of filter over allMappings from entry i on: results.set for every
\* entry that neither `continue` skips
RECURSIVE FilterFrom(_, _, _)
FilterFrom(all, options, i) ==
  IF i > Len(all) THEN EmptyMap
  ELSE LET mapping == all[i].v
           skip == \/ (TagsGiven(options) /\ ~hasMatchingTag(options, mapping))
                   \/ (options.color # Undefined /\ options.color # ""
                         /\ mapping.color # options.color)
       IN  (IF skip THEN << >> ELSE << all[i] >>) \o FilterFrom(all, options, i + 1)

\* a save that completes on its own: the record is written, the cache dropped
FilterSave(id, input) ==
  /\ durable' = MapSet(durable, id, Mapping(input, 0, 0))
  /\ cache' = invalidateMappings(cache, "bg")
  /\ probe' = NoProbe
  /\ UNCHANGED <<ops, clock, lastLoaded, started, port, held>>
  /\ UNCHANGED <<domVars, textVars, schedVars, ctxVars>>

\* filter(options), called with no other call in flight: getAll answers from
\* the cache or loads and caches; the call's argument and result are kept
FilterCall(tags, color) ==
  /\ LET options == [tags |-> tags, color |-> color]
         allMappings == IF cache["bg"].present THEN cache["bg"].map ELSE durable
     IN  /\ probe' = [arg |-> options, done |-> TRUE, value |-> FilterFrom(allMappings, options, 1)]
         /\ cache' = IF cache["bg"].present THEN cache ELSE setMappings(cache, "bg", durable)
         /\ lastLoaded' = IF cache["bg"].present THEN lastLoaded
                          ELSE [lastLoaded EXCEPT !["bg"] = durable]
  /\ UNCHANGED <<durable, ops, clock, started, port, held>>
  /\ UNCHANGED <<domVars, textVars, schedVars, ctxVars>>

FilterNext ==
  \/ \E id \in FilterIds, input \in FilterInputs : FilterSave(id, input)
  \/ \E tags \in TagChoices, color \in ColorChoices : FilterCall(tags, color)

SpecFilter == InitDoc /\ [][FilterNext]_vars

\* the tags of a record, as a set
TagSet(mapping) == { mapping.tags[j] : j \in 1..Len(mapping.tags) }

\* C39: filter returns, in the store's order, exactly the records that have
\* at least one of the given tags (when tags are given and not empty) and the
\* given colour (when a colour is given); with neither it returns every
\* record; and a call changes nothing in durable storage nor in what getAll
\* returns.
C39_FilterExact ==
  [][probe'.done =>
       LET options == probe'.arg
           result == probe'.value
           wanted == { i \in 1..Len(WouldGetAll) :
                         /\ (options.tags.given /\ options.tags.list # << >>) =>
                              TagSet(WouldGetAll[i].v)
                                \cap { options.tags.list[j] : j \in 1..Len(options.tags.list) } # {}
                         /\ options.color # Undefined => WouldGetAll[i].v.color = options.color }
       IN  /\ { result[i] : i \in 1..Len(result) } = { WouldGetAll[i] : i \in wanted }
           /\ Len(result) = Cardinality(wanted)
           /\ (options.tags \in {NoTags, Tags(<< >>)} /\ options.color = Undefined) => result = WouldGetAll
           /\ durable' = durable
           /\ WouldGetAll' = WouldGetAll]_vars

\* a call with a tag list and a colour has returned some records of the
\* store and left others out
C39_Witness ==
  /\ probe.done
  /\ probe.arg.tags = Tags(<<Tag3, Tag1>>)
  /\ probe.arg.color = Color1
  /\ Len(probe.value) = 1
  /\ Len(durable) = 3

=============================================================================
